---- MODULE Spec2Model ----
(***************************************************************************)
(* Model of the ARR-MCP gateway (package server of src/cmd/server/main.go, *)
(* package api of src/unnamed/part_002): the tool registry, the parameter  *)
(* validator, the run dispatcher and the response framing.                 *)
(*                                                                         *)
(* Texts (error messages) are sequences of pieces: fmt.Sprintf/Errorf with *)
(* one %s/%v verb is the concatenation of the format's literal part with   *)
(* the argument, so a message "names" a parameter when the parameter is    *)
(* one of its pieces and two messages are equal verbatim when the          *)
(* sequences are equal.                                                    *)
(***************************************************************************)
EXTENDS Integers, Sequences, FiniteSets, TLC

VARIABLES
    registry,      \* BasicToolRegistry.tools: name -> ToolDefinition
    handlers,      \* MCPServer.handlers: name -> Handler
    handlersLock,  \* MCPServer.handlersLock: [writer, pending, readers]
    reg,           \* the goroutine calling RegisterTool: [pc, definition, handler]
    req,           \* the goroutines serving requests: per goroutine, its
                   \* position, the locals of the handler and the response
    lastReg,       \* history: name -> the arguments of the last RegisterTool call
    fatal,         \* the runtime has stopped the process (fatal error)
    goarch,        \* the build's architecture
    val,           \* one call of validateParameters: its arguments and its result
    serviceCheckers, \* MCPServer.serviceCheckers: the slice of checkers
    services,      \* what each checker's service answers now: checker -> error
    hreq,          \* the goroutine serving /health and /v1/service-health
    regc,          \* a goroutine calling RegisterServiceChecker: [pc, checker]
    config,        \* package main: the Config loadConfig returned
    main,          \* package main: the position of main and the exit status
    logger         \* a logger.Logger, its output and the goroutines using it

serverVars == <<registry, handlers, handlersLock, reg, req, lastReg, fatal>>
healthVars == <<serviceCheckers, services, hreq, regc>>
mainVars == <<config, main>>
loggerVars == <<logger>>
vars == <<registry, handlers, handlersLock, reg, req, lastReg, fatal, goarch,
          val, serviceCheckers, services, hreq, regc, config, main, logger>>

(***************************************************************************)
(* JSON values as encoding/json decodes them into interface{}: string,     *)
(* float64, bool, []interface{}, map[string]interface{} and nil.  A        *)
(* float64 is m * 2^e, kept canonical (m odd, or m = 0 and e = 0).  The s  *)
(* of a string is its text; that of an array or an object stands for its   *)
(* content, and is the set of the members' names where the members of an   *)
(* object are looked at (the input of AddSeries and AddMovie).             *)
(***************************************************************************)
Str(s) == [k |-> "string", s |-> s, m |-> 0, e |-> 0]
Num(m, e) == [k |-> "float64", s |-> "", m |-> m, e |-> e]
Bool(b) == [k |-> "bool", s |-> "", m |-> IF b THEN 1 ELSE 0, e |-> 0]
Arr(s) == [k |-> "array", s |-> s, m |-> 0, e |-> 0]
Obj(s) == [k |-> "object", s |-> s, m |-> 0, e |-> 0]
Null == [k |-> "nil", s |-> "", m |-> 0, e |-> 0]

\* width of Go's int on the 64-bit builds
IntBits == 64

Abs(n) == IF n < 0 THEN -n ELSE n

RECURSIVE Pow2(_)
Pow2(n) == IF n <= 0 THEN 1 ELSE 2 * Pow2(n - 1)

\* number of binary digits of a natural number
RECURSIVE BitLen(_)
BitLen(n) == IF n = 0 THEN 0 ELSE 1 + BitLen(n \div 2)

\* the canonical float64 of the integer m * 2^e (e >= 0)
RECURSIVE Canon(_, _)
Canon(m, e) ==
    IF m = 0 THEN [m |-> 0, e |-> 0]
    ELSE IF m % 2 = 0 THEN Canon(m \div 2, e + 1)
    ELSE [m |-> m, e |-> e]

\* integer division truncating toward zero, as a float64 -> int conversion does
TruncDiv(m, d) == IF m >= 0 THEN m \div d ELSE -((-m) \div d)

\* Go ints are m * 2^e + a; a = -1 only for the largest int
MinInt == [m |-> -1, e |-> IntBits - 1, a |-> 0]
MaxInt == [m |-> 1, e |-> IntBits - 1, a |-> -1]

\* does the truncated value of the float64 fit Go's int
FitsInt(num) ==
    \/ num.e < 0
    \/ BitLen(Abs(num.m)) + num.e <= IntBits - 1
    \/ (num.m = -1 /\ num.e = IntBits - 1)

\* the builds whose out-of-range conversion differs
Archs == {"amd64", "arm64"}

\* int(num): exact truncation in range; out of range the result is
\* implementation-dependent: amd64 yields the smallest int, arm64 saturates
IntOfFloat(num, arch) ==
    IF FitsInt(num)
    THEN IF num.e < 0
         THEN [m |-> TruncDiv(num.m, Pow2(-num.e)), e |-> 0, a |-> 0]
         ELSE [m |-> num.m, e |-> num.e, a |-> 0]
    ELSE IF arch = "amd64" THEN MinInt
         ELSE IF num.m > 0 THEN MaxInt ELSE MinInt

\* float64(i): exact for the small mantissas used here; the largest int
\* rounds up to 2^(IntBits-1)
FloatOfInt(i) ==
    IF i.a = 0 THEN Canon(i.m, i.e) ELSE [m |-> 1, e |-> IntBits - 1]

\* float64(int(num)) != num
IntegerCheckFails(num, arch) ==
    FloatOfInt(IntOfFloat(num, arch)) # [m |-> num.m, e |-> num.e]

(***************************************************************************)
(* validateParameters.  A schema maps parameter names to entries; an entry *)
(* is [obj, required, type]: obj is whether the entry is an object (other  *)
(* entries are skipped), required is schemaObj["required"].(bool) (false   *)
(* when absent or not a bool), type is schemaObj["type"].(string) ("" when *)
(* absent or not a string).  The error is the text of fmt.Errorf; NoError  *)
(* is nil.                                                                 *)
(***************************************************************************)
NoError == <<>>

Param(type, required) == [obj |-> TRUE, required |-> required, type |-> type]
NotAnObject == [obj |-> FALSE, required |-> FALSE, type |-> ""]

\* a type switch whose "number" case also lets strings through
TypeErrorNumberOrString(paramName, expectedType, value, arch) ==
    CASE expectedType = "string" /\ value.k # "string" ->
            <<"parameter ", paramName, " must be a string">>
      [] expectedType = "number" /\ value.k \notin {"float64", "string"} ->
            <<"parameter ", paramName, " must be a number">>
      [] expectedType = "integer"
            /\ (value.k # "float64" \/ IntegerCheckFails(value, arch)) ->
            <<"parameter ", paramName, " must be an integer">>
      [] expectedType = "boolean" /\ value.k # "bool" ->
            <<"parameter ", paramName, " must be a boolean">>
      [] expectedType = "array" /\ value.k # "array" ->
            <<"parameter ", paramName, " must be an array">>
      [] expectedType = "object" /\ value.k # "object" ->
            <<"parameter ", paramName, " must be an object">>
      [] OTHER -> NoError

\* the type switch on expectedType: the error text for a present value
TypeError(paramName, expectedType, value, arch) ==
    CASE expectedType = "string" /\ value.k # "string" ->
            <<"parameter ", paramName, " must be a string">>
      [] expectedType = "number" /\ value.k # "float64" ->
            <<"parameter ", paramName, " must be a number">>
      [] expectedType = "integer"
            /\ (value.k # "float64" \/ IntegerCheckFails(value, arch)) ->
            <<"parameter ", paramName, " must be an integer">>
      [] expectedType = "boolean" /\ value.k # "bool" ->
            <<"parameter ", paramName, " must be a boolean">>
      [] expectedType = "array" /\ value.k # "array" ->
            <<"parameter ", paramName, " must be an array">>
      [] expectedType = "object" /\ value.k # "object" ->
            <<"parameter ", paramName, " must be an object">>
      [] OTHER -> NoError

\* the body of the loop for one schema entry
CheckParam(input, paramName, paramSchema, arch) ==
    IF ~paramSchema.obj THEN NoError
    ELSE IF paramSchema.required /\ paramName \notin DOMAIN input
    THEN <<"required parameter missing: ", paramName>>
    ELSE IF paramName \in DOMAIN input /\ paramSchema.type # ""
    THEN TypeError(paramName, paramSchema.type, input[paramName], arch)
    ELSE NoError

\* a loop that goes on after an error and returns the errors joined
RECURSIVE ValidateFromAccumulating(_, _, _, _, _)
ValidateFromAccumulating(input, schema, order, i, arch) ==
    IF i > Len(order) THEN NoError
    ELSE CheckParam(input, order[i], schema[order[i]], arch)
             \o ValidateFromAccumulating(input, schema, order, i + 1, arch)

\* the loop, visiting the schema's entries in the given order (Go ranges
\* over a map in an unspecified order) and returning at the first error
RECURSIVE ValidateFrom(_, _, _, _, _)
ValidateFrom(input, schema, order, i, arch) ==
    IF i > Len(order) THEN NoError
    ELSE LET err == CheckParam(input, order[i], schema[order[i]], arch)
         IN  IF err # NoError THEN err
             ELSE ValidateFrom(input, schema, order, i + 1, arch)

\* a loop that returns after the first entry it visits
validateParametersFirstOnly(input, schema, order, arch) ==
    IF Len(order) = 0 THEN NoError
    ELSE CheckParam(input, order[1], schema[order[1]], arch)

validateParameters(input, schema, order, arch) ==
    ValidateFrom(input, schema, order, 1, arch)

\* the orders in which a range over a map with these keys can visit them
RangeOrders(keys) ==
    {o \in [1..Cardinality(keys) -> keys] :
        \A i, j \in 1..Cardinality(keys) : i # j => o[i] # o[j]}

\* the orders of a range over a map whose keys are among the given ones
AllOrders(keys) == UNION {RangeOrders(k) : k \in SUBSET keys}

(***************************************************************************)
(* Bounds and the values requests and registrations are drawn from.        *)
(***************************************************************************)
MaxTimeout == 1     \* largest "timeout" of a request, in ticks of the clock
MaxElapsed == 2     \* ticks a handler call is followed for

Reqs == {"r1", "r2"}
Names == {"A", "B"}

EmptyMap == <<>>

SchemaQ == ("q" :> Param("string", TRUE))
SchemaQN == ("q" :> Param("string", TRUE)) @@ ("n" :> Param("integer", FALSE))

ServerInputs ==
    { EmptyMap,
      ("q" :> Str("hi")),
      ("q" :> Str("hi")) @@ ("n" :> Num(1, IntBits)) }

\* handlers in the style of the tests' MockHandler: a fixed response and error
HandlerOK == [id |-> "ok", Response |-> Obj("result"), Error |-> NoError]
HandlerErr == [id |-> "err", Response |-> Null, Error |-> <<"boom">>]
Handlers == {HandlerOK, HandlerErr}
NoHandler == [id |-> "", Response |-> Null, Error |-> NoError]

\* the handlers of package arr: the client each one uses, the parameter
\* it takes from the input and the type it asserts (if any), what it
\* prefixes to the client's error, and the key of the map it returns
ArrTool(service, param, type, failure, key) ==
    [service |-> service, param |-> param, type |-> type,
     failure |-> failure, key |-> key]
ArrTools ==
    ("SonarrSearch" :> ArrTool("sonarr", "query", "string",
                               "sonarr search failed: ", "results"))
    @@ ("SonarrList" :> ArrTool("sonarr", "", "",
                "failed to get series from Sonarr: ", "series"))
    @@ ("SonarrAddSeries" :> ArrTool("sonarr", "seriesData", "object",
                "failed to add series to Sonarr: ", "series"))
    @@ ("SonarrGetProfiles" :> ArrTool("sonarr", "", "",
                "failed to get quality profiles from Sonarr: ", "profiles"))
    @@ ("SonarrGetRootFolders" :> ArrTool("sonarr", "", "",
                "failed to get root folders from Sonarr: ", "folders"))
    @@ ("RadarrSearch" :> ArrTool("radarr", "query", "string",
                                  "radarr search failed: ", "results"))
    @@ ("RadarrList" :> ArrTool("radarr", "", "",
                "failed to get movies from Radarr: ", "movies"))
    @@ ("RadarrAddMovie" :> ArrTool("radarr", "movieData", "object",
                "failed to add movie to Radarr: ", "movie"))
    @@ ("RadarrGetProfiles" :> ArrTool("radarr", "", "",
                "failed to get quality profiles from Radarr: ", "profiles"))
    @@ ("RadarrGetRootFolders" :> ArrTool("radarr", "", "",
                "failed to get root folders from Radarr: ", "folders"))
    @@ ("ProwlarrSearch" :> ArrTool("prowlarr", "query", "string",
                                    "prowlarr search failed: ", "results"))
    @@ ("ProwlarrIndexers" :> ArrTool("prowlarr", "", "",
                "failed to get indexers from Prowlarr: ", "indexers"))

\* a handler of package arr as setupServer builds it, with its client
ArrHandler(name) == [id |-> name, Client |-> ArrTools[name].service]

\* AddSeries and AddMovie of the clients: the members the object must
\* have, in the order the loop checks them, and the text of the error
requiredFields ==
    ("SonarrAddSeries" :>
        [fields |-> <<"tvdbId", "title", "qualityProfileId", "rootFolderPath">>,
         message |-> "missing required field for adding series: "])
    @@ ("RadarrAddMovie" :>
        [fields |-> <<"tmdbId", "title", "qualityProfileId", "rootFolderPath">>,
         message |-> "missing required field for adding movie: "])

\* the error of the client's call: AddSeries and AddMovie return at the
\* first required member the object (its s is the set of its members'
\* names) lacks, before any request; err is what the request to the
\* service returns
ClientError(name, value, err) ==
    IF name \notin DOMAIN requiredFields THEN err
    ELSE LET fields == requiredFields[name].fields
             missing == {i \in 1..Len(fields) : fields[i] \notin value.s}
         IN  IF missing = {} THEN err
             ELSE <<requiredFields[name].message,
                    fields[CHOOSE i \in missing : \A j \in missing : i <= j]>>

\* HandleRequest of a handler of package arr, err being what the client's
\* request to the service returns: a string parameter must be a non-empty
\* string and an object parameter an object with a member at least
ArrHandleRequest(handler, input, err) ==
    LET tool == ArrTools[handler.id]
        Failed(message) == [result |-> Null, err |-> message]
        value == input[tool.param]
        clientErr == ClientError(handler.id,
                                 IF tool.param = "" THEN Null ELSE value, err)
    IN  IF handler.Client = ""
        THEN Failed(<<tool.service, " client not configured">>)
        ELSE IF /\ tool.param # ""
                /\ \/ tool.param \notin DOMAIN input
                   \/ value.k # tool.type
                   \/ value.s = IF tool.type = "string" THEN "" ELSE {}
        THEN Failed(<<"missing or invalid '", tool.param, "' parameter">>)
        ELSE IF clientErr # NoError
        THEN Failed(<<tool.failure>> \o clientErr)
        ELSE [result |-> Obj(tool.key), err |-> NoError]

ToolDefinition(name, description, parameters) ==
    [Name |-> name, Description |-> description, Parameters |-> parameters]
\* the zero ToolDefinition, returned by GetTool for a missing name
ZeroTool == ToolDefinition("", "", EmptyMap)

\* the RegisterTool calls: a tool, the same tool registered again with
\* another schema and handler, and a second tool
Registrations ==
    { [definition |-> ToolDefinition("A", "first A", SchemaQ),
       handler |-> HandlerOK],
      [definition |-> ToolDefinition("A", "second A", SchemaQN),
       handler |-> HandlerErr],
      [definition |-> ToolDefinition("B", "B", SchemaQN),
       handler |-> HandlerOK] }

(***************************************************************************)
(* Package api: the registry.                                              *)
(***************************************************************************)
\* m[key] = value on a Go map
MapSet(m, key, value) ==
    [x \in DOMAIN m \cup {key} |-> IF x = key THEN value ELSE m[x]]

\* a registry that keeps the first definition registered under a name
RegisterToolKeepFirst(tools, tool) ==
    IF tool.Name \in DOMAIN tools THEN tools ELSE MapSet(tools, tool.Name, tool)

RegisterTool(tools, tool) == MapSet(tools, tool.Name, tool)

GetTool(tools, name) ==
    IF name \in DOMAIN tools
    THEN [tool |-> tools[name], exists |-> TRUE]
    ELSE [tool |-> ZeroTool, exists |-> FALSE]

\* the slice built by ranging over the map in the given order
ListTools(tools, order) == [i \in 1..Len(order) |-> tools[order[i]]]

(***************************************************************************)
(* The response: the status code (0 until the header is written) and the   *)
(* JSON documents written to the body.                                     *)
(***************************************************************************)
NewResponse == [code |-> 0, frames |-> <<>>]

ErrorFrame(message) ==
    [type |-> "error", message |-> message, result |-> Null, done |-> FALSE,
     tools |-> <<>>]
FinalFrame(result) ==
    [type |-> "final", message |-> <<>>, result |-> result, done |-> FALSE,
     tools |-> <<>>]
PartialFrame(content, done) ==
    [type |-> "partial", message |-> <<>>, result |-> content, done |-> done,
     tools |-> <<>>]
\* the partial frame whose content is {"error": text}
PartialErrorFrame(text, done) ==
    [type |-> "partial", message |-> text, result |-> Obj("{\"error\"}"),
     done |-> done, tools |-> <<>>]
ToolsFrame(tools) ==
    [type |-> "tools", message |-> <<>>, result |-> Null, done |-> FALSE,
     tools |-> tools]

StatusOK == 200
StatusBadRequest == 400
StatusMethodNotAllowed == 405
StatusInternalServerError == 500

\* a WriteHeader whose status code is dropped
WriteHeaderIgnored(w, statusCode) == w

\* w.WriteHeader: only the first call sets the status
WriteHeader(w, statusCode) ==
    IF w.code = 0 THEN [w EXCEPT !.code = statusCode] ELSE w

\* json.NewEncoder(w).Encode: the first write sends status 200 if none was set
Encode(w, frame) ==
    [code |-> IF w.code = 0 THEN StatusOK ELSE w.code,
     frames |-> Append(w.frames, frame)]

\* an error response that hides the text of internal errors
sendErrorResponseGeneric(w, message, statusCode) ==
    Encode(WriteHeader(w, statusCode),
           ErrorFrame(IF statusCode = StatusInternalServerError
                      THEN <<"Internal server error">> ELSE message))

sendErrorResponse(w, message, statusCode) ==
    Encode(WriteHeader(w, statusCode), ErrorFrame(message))

\* a success response that answers 202 Accepted
sendSuccessResponseAccepted(w, result) ==
    Encode(WriteHeader(w, 202), FinalFrame(result))

sendSuccessResponse(w, result) == Encode(w, FinalFrame(result))

\* a capability check that takes every handler for a streaming one
supportStreamingResponseAlways(handler) == TRUE

\* a capability check that finds the capability in the handlers that
\* return an error
supportStreamingResponseOfSome(handler) == handler.Error # NoError

supportStreamingResponse(handler) == FALSE

\* w.(http.Flusher): the writers of net/http and httptest implement it
FlusherOK == TRUE

(***************************************************************************)
(* Requests.  body is how reading and parsing the body ends: "unreadable"  *)
(* (io.ReadAll fails), "malformed" (json.Unmarshal fails) or "ok", and     *)
(* then tool_name, input and timeout are the decoded MCPRequest            *)
(* (request_id and access_token are carried along and never read).         *)
(***************************************************************************)
MCPRequest(tool_name, input, timeout) ==
    [tool_name |-> tool_name, input |-> input, timeout |-> timeout]
ZeroRequest == MCPRequest("", EmptyMap, 0)

Methods == {"POST", "GET"}
MCPRequests ==
    {MCPRequest(n, i, t) : n \in Names \cup {""}, i \in ServerInputs,
                           t \in 0..MaxTimeout}
\* the requests sent to /v1/run
RunRequests ==
    { [method |-> "GET", body |-> "ok", mcpRequest |-> ZeroRequest],
      [method |-> "POST", body |-> "unreadable", mcpRequest |-> ZeroRequest],
      [method |-> "POST", body |-> "malformed", mcpRequest |-> ZeroRequest] }
    \cup {[method |-> "POST", body |-> "ok", mcpRequest |-> q] : q \in MCPRequests}

\* the run requests without a timeout
ServeRequests == {q \in RunRequests : q.mcpRequest.timeout = 0}

\* a goroutine of the HTTP server that is serving no request
Idle ==
    [pc |-> "idle", endpoint |-> "", mcpRequest |-> ZeroRequest,
     handler |-> NoHandler, exists |-> FALSE, toolDef |-> ZeroTool,
     stage |-> "", elapsed |-> 0, calls |-> 0, cancelled |-> FALSE,
     ctxErr |-> "", w |-> NewResponse]

\* the goroutine has returned from the endpoint's handler function
Returned(r) == req[r].pc \in {"done", "streaming"}
Free(r) == req[r].pc \in {"idle", "done"}

(***************************************************************************)
(* Service checkers, the health endpoints' goroutine and package main:     *)
(* their values and initial state.                                         *)
(***************************************************************************)
\* a ServiceChecker: Name() returns ServiceName.  The Check() of an arr
\* Client (client is TRUE) asks the service at BaseURL (a scheme and a
\* host: Check replaces the path) under a deadline; the interface sets no
\* limit to the time the Check() of another implementation takes
ServiceChecker(id, name, baseURL, client) ==
    [id |-> id, ServiceName |-> name, BaseURL |-> baseURL, client |-> client]

\* the clients NewSonarrClient, NewRadarrClient and NewProwlarrClient build
SonarrClient ==
    ServiceChecker("sonarr", "Sonarr", "http://sonarr:8989", TRUE)
RadarrClient ==
    ServiceChecker("radarr", "Radarr", "http://radarr:7878", TRUE)
ProwlarrClient ==
    ServiceChecker("prowlarr", "Prowlarr", "http://prowlarr:9696", TRUE)
\* a client of a second Sonarr instance
SonarrClient2 ==
    ServiceChecker("sonarr2", "Sonarr", "http://sonarr2:8989", TRUE)
\* a ServiceChecker that is no arr Client
OtherChecker == ServiceChecker("other", "Other", "", FALSE)

CheckerIds == {"sonarr", "radarr", "prowlarr", "sonarr2", "other"}
\* the checkers registered with a server on its own
Checkers == {SonarrClient, RadarrClient, SonarrClient2}
\* the checkers of the health checks
HealthCheckers == Checkers \cup {OtherChecker}

MaxCheckers == 2        \* most checkers registered
TickSeconds == 5        \* the step of the clock, in seconds
MaxWait == 65           \* seconds a health check is followed for
\* the deadline of the context of Client.Check, in seconds
CheckTimeout == 5
\* http.Server.WriteTimeout of Start, in seconds
WriteTimeout == 60

StatusServiceUnavailable == 503

\* the errors Check returns
CheckErrors == {<<"x down">>}
\* the error of Check when its context's deadline passes during the
\* request: the *url.Error of HTTPClient.Do (the method, the URL and the
\* cause), wrapped
CheckDeadlineExceeded(checker) ==
    <<"health check failed: ", "Get \"", checker.BaseURL,
      "/api/v3/system/status", "\": ", "context deadline exceeded">>

\* the goroutine serving no request
HIdle ==
    [pc |-> "idle", endpoint |-> "", method |-> "", checkers |-> <<>>,
     i |-> 0, results |-> EmptyMap, allHealthy |-> TRUE, calls |-> <<>>,
     errs |-> <<>>, elapsed |-> 0, spent |-> 0, lost |-> FALSE,
     w |-> NewResponse]

\* the nil ServiceChecker: a call through it panics
NilChecker == ServiceChecker("", "", "", FALSE)

HealthInit ==
    /\ serviceCheckers = <<>>
    /\ services = [c \in CheckerIds |-> NoError]
    /\ hreq = HIdle
    /\ regc = [pc |-> "idle", checker |-> NilChecker]

\* package logger: the levels, in the order of the constants
Debug == 0
Info == 1
Warn == 2
Error == 3

levelStrings ==
    (Debug :> "DEBUG") @@ (Info :> "INFO") @@ (Warn :> "WARN")
        @@ (Error :> "ERROR")
\* A text that is looked at character by character (a level name) is the
\* sequence of its characters' code points: "debug" is
\* <<100, 101, 98, 117, 103>>.
stringToLevel ==
    (<<100, 101, 98, 117, 103>> :> Debug)           \* "debug"
        @@ (<<105, 110, 102, 111>> :> Info)         \* "info"
        @@ (<<119, 97, 114, 110>> :> Warn)          \* "warn"
        @@ (<<101, 114, 114, 111, 114>> :> Error)   \* "error"

\* the lower-case mappings of package unicode: <<lo, hi, stride, delta>>
\* maps every stride-th code point from lo to hi to itself plus delta
CaseRanges ==
    << <<65, 90, 1, 32>>, <<192, 214, 1, 32>>, <<216, 222, 1, 32>>,
       <<256, 302, 2, 1>>, <<304, 304, 1, -199>>, <<306, 310, 2, 1>>,
       <<313, 327, 2, 1>>, <<330, 374, 2, 1>>, <<376, 376, 1, -121>>,
       <<377, 381, 2, 1>>, <<385, 385, 1, 210>>, <<386, 388, 2, 1>>,
       <<390, 390, 1, 206>>, <<391, 391, 1, 1>>, <<393, 394, 1, 205>>,
       <<395, 395, 1, 1>>, <<398, 398, 1, 79>>, <<399, 399, 1, 202>>,
       <<400, 400, 1, 203>>, <<401, 401, 1, 1>>, <<403, 403, 1, 205>>,
       <<404, 404, 1, 207>>, <<406, 406, 1, 211>>, <<407, 407, 1, 209>>,
       <<408, 408, 1, 1>>, <<412, 412, 1, 211>>, <<413, 413, 1, 213>>,
       <<415, 415, 1, 214>>, <<416, 420, 2, 1>>, <<422, 422, 1, 218>>,
       <<423, 423, 1, 1>>, <<425, 425, 1, 218>>, <<428, 428, 1, 1>>,
       <<430, 430, 1, 218>>, <<431, 431, 1, 1>>, <<433, 434, 1, 217>>,
       <<435, 437, 2, 1>>, <<439, 439, 1, 219>>, <<440, 440, 1, 1>>,
       <<444, 444, 1, 1>>, <<452, 452, 1, 2>>, <<453, 453, 1, 1>>,
       <<455, 455, 1, 2>>, <<456, 456, 1, 1>>, <<458, 458, 1, 2>>,
       <<459, 475, 2, 1>>, <<478, 494, 2, 1>>, <<497, 497, 1, 2>>,
       <<498, 500, 2, 1>>, <<502, 502, 1, -97>>, <<503, 503, 1, -56>>,
       <<504, 542, 2, 1>>, <<544, 544, 1, -130>>, <<546, 562, 2, 1>>,
       <<570, 570, 1, 10795>>, <<571, 571, 1, 1>>, <<573, 573, 1, -163>>,
       <<574, 574, 1, 10792>>, <<577, 577, 1, 1>>, <<579, 579, 1, -195>>,
       <<580, 580, 1, 69>>, <<581, 581, 1, 71>>, <<582, 590, 2, 1>>,
       <<880, 882, 2, 1>>, <<886, 886, 1, 1>>, <<895, 895, 1, 116>>,
       <<902, 902, 1, 38>>, <<904, 906, 1, 37>>, <<908, 908, 1, 64>>,
       <<910, 911, 1, 63>>, <<913, 929, 1, 32>>, <<931, 939, 1, 32>>,
       <<975, 975, 1, 8>>, <<984, 1006, 2, 1>>, <<1012, 1012, 1, -60>>,
       <<1015, 1015, 1, 1>>, <<1017, 1017, 1, -7>>, <<1018, 1018, 1, 1>>,
       <<1021, 1023, 1, -130>>, <<1024, 1039, 1, 80>>, <<1040, 1071, 1, 32>>,
       <<1120, 1152, 2, 1>>, <<1162, 1214, 2, 1>>, <<1216, 1216, 1, 15>>,
       <<1217, 1229, 2, 1>>, <<1232, 1326, 2, 1>>, <<1329, 1366, 1, 48>>,
       <<4256, 4293, 1, 7264>>, <<4295, 4295, 1, 7264>>, <<4301, 4301, 1, 7264>>,
       <<5024, 5103, 1, 38864>>, <<5104, 5109, 1, 8>>, <<7312, 7354, 1, -3008>>,
       <<7357, 7359, 1, -3008>>, <<7680, 7828, 2, 1>>, <<7838, 7838, 1, -7615>>,
       <<7840, 7934, 2, 1>>, <<7944, 7951, 1, -8>>, <<7960, 7965, 1, -8>>,
       <<7976, 7983, 1, -8>>, <<7992, 7999, 1, -8>>, <<8008, 8013, 1, -8>>,
       <<8025, 8031, 2, -8>>, <<8040, 8047, 1, -8>>, <<8072, 8079, 1, -8>>,
       <<8088, 8095, 1, -8>>, <<8104, 8111, 1, -8>>, <<8120, 8121, 1, -8>>,
       <<8122, 8123, 1, -74>>, <<8124, 8124, 1, -9>>, <<8136, 8139, 1, -86>>,
       <<8140, 8140, 1, -9>>, <<8152, 8153, 1, -8>>, <<8154, 8155, 1, -100>>,
       <<8168, 8169, 1, -8>>, <<8170, 8171, 1, -112>>, <<8172, 8172, 1, -7>>,
       <<8184, 8185, 1, -128>>, <<8186, 8187, 1, -126>>, <<8188, 8188, 1, -9>>,
       <<8486, 8486, 1, -7517>>, <<8490, 8490, 1, -8383>>, <<8491, 8491, 1, -8262>>,
       <<8498, 8498, 1, 28>>, <<8544, 8559, 1, 16>>, <<8579, 8579, 1, 1>>,
       <<9398, 9423, 1, 26>>, <<11264, 11311, 1, 48>>, <<11360, 11360, 1, 1>>,
       <<11362, 11362, 1, -10743>>, <<11363, 11363, 1, -3814>>, <<11364, 11364, 1, -10727>>,
       <<11367, 11371, 2, 1>>, <<11373, 11373, 1, -10780>>, <<11374, 11374, 1, -10749>>,
       <<11375, 11375, 1, -10783>>, <<11376, 11376, 1, -10782>>, <<11378, 11378, 1, 1>>,
       <<11381, 11381, 1, 1>>, <<11390, 11391, 1, -10815>>, <<11392, 11490, 2, 1>>,
       <<11499, 11501, 2, 1>>, <<11506, 11506, 1, 1>>, <<42560, 42604, 2, 1>>,
       <<42624, 42650, 2, 1>>, <<42786, 42798, 2, 1>>, <<42802, 42862, 2, 1>>,
       <<42873, 42875, 2, 1>>, <<42877, 42877, 1, -35332>>, <<42878, 42886, 2, 1>>,
       <<42891, 42891, 1, 1>>, <<42893, 42893, 1, -42280>>, <<42896, 42898, 2, 1>>,
       <<42902, 42920, 2, 1>>, <<42922, 42922, 1, -42308>>, <<42923, 42923, 1, -42319>>,
       <<42924, 42924, 1, -42315>>, <<42925, 42925, 1, -42305>>, <<42926, 42926, 1, -42308>>,
       <<42928, 42928, 1, -42258>>, <<42929, 42929, 1, -42282>>, <<42930, 42930, 1, -42261>>,
       <<42931, 42931, 1, 928>>, <<42932, 42946, 2, 1>>, <<42948, 42948, 1, -48>>,
       <<42949, 42949, 1, -42307>>, <<42950, 42950, 1, -35384>>, <<42951, 42953, 2, 1>>,
       <<42960, 42960, 1, 1>>, <<42966, 42968, 2, 1>>, <<42997, 42997, 1, 1>>,
       <<65313, 65338, 1, 32>>, <<66560, 66599, 1, 40>>, <<66736, 66771, 1, 40>>,
       <<66928, 66938, 1, 39>>, <<66940, 66954, 1, 39>>, <<66956, 66962, 1, 39>>,
       <<66964, 66965, 1, 39>>, <<68736, 68786, 1, 64>>, <<71840, 71871, 1, 32>>,
       <<93760, 93791, 1, 32>>, <<125184, 125217, 1, 34>> >>

\* unicode.ToLower of a code point: a letter of a range of CaseRanges maps
\* to its lower-case letter (A to a, U+0130 to i), every other code point
\* to itself
Lower(c) ==
    LET InRange(k) ==
            /\ CaseRanges[k][1] <= c
            /\ c <= CaseRanges[k][2]
            /\ (c - CaseRanges[k][1]) % CaseRanges[k][3] = 0
    IN  IF \E k \in 1..Len(CaseRanges) : InRange(k)
        THEN c + CaseRanges[CHOOSE k \in 1..Len(CaseRanges) : InRange(k)][4]
        ELSE c

\* strings.ToLower: every character in lower case
ToLower(s) == [i \in 1..Len(s) |-> Lower(s[i])]

\* the level SetLevel stores: that of the name, in any case of letters;
\* the level stays as it is when stringToLevel has no such name
SetLevel(level, name) ==
    IF ToLower(name) \in DOMAIN stringToLevel
    THEN stringToLevel[ToLower(name)] ELSE level

\* the line log writes: the level's name, the message, and where it goes
LogEntry(level, message, writer) ==
    [level |-> levelStrings[level], message |-> message, writer |-> writer]

\* l after l.log(level, ...) of each message in turn, with no other
\* goroutine using l: nothing is written below the logger's level
Log(l, level, messages) ==
    IF level < l.level THEN l
    ELSE [l EXCEPT !.entries =
             @ \o [i \in 1..Len(messages) |->
                      LogEntry(level, messages[i], l.writer)]]

\* l after a call of s.log by the serving MCPServer, which goes on
\* writing for as long as requests arrive: of its output, entries keeps
\* the line written last
ServerLog(l, level, message) ==
    IF level < l.level THEN l
    ELSE [l EXCEPT !.entries = <<LogEntry(level, message, l.writer)>>]

\* the goroutines that use the logger
LogCallers == {"g1", "g2"}
\* a goroutine that is in no call of the logger
LogIdle == [pc |-> "idle", level |-> Info, name |-> <<>>, w |-> ""]

\* logger.New("info", prefix), writing to os.Stdout
LoggerInit ==
    logger = [level |-> Info, writer |-> "stdout", mu |-> "", entries |-> <<>>,
              g |-> [c \in LogCallers |-> LogIdle]]

\* package main
Config(port, host, logLevel, sonarr, radarr, prowlarr) ==
    [Port |-> port, Host |-> host, LogLevel |-> logLevel,
     SonarrURL |-> sonarr.url, SonarrAPIKey |-> sonarr.key,
     RadarrURL |-> radarr.url, RadarrAPIKey |-> radarr.key,
     ProwlarrURL |-> prowlarr.url, ProwlarrAPIKey |-> prowlarr.key]

\* the defaults of loadConfig, with no flag and no environment variable set
DefaultConfig ==
    Config(8080, "localhost", <<105, 110, 102, 111>>, [url |-> "", key |-> ""],
           [url |-> "", key |-> ""], [url |-> "", key |-> ""])

\* main before it runs: its position, the exit status, the stop channel
\* (the number of signals in its buffer), mcpServer.server (nil or set),
\* whether the http.Server has been shut down, the position of the
\* goroutine running Start, the error Start returned to it and the signals
\* sent so far
MainIdle ==
    [pc |-> "off", code |-> 0, err |-> NoError, stop |-> 0, server |-> "nil",
     shut |-> FALSE, start |-> "off", startErr |-> NoError, signals |-> 0]

MainOff ==
    /\ config = DefaultConfig
    /\ main = MainIdle

Init ==
    /\ HealthInit
    /\ LoggerInit
    /\ MainOff
    /\ registry = EmptyMap
    /\ handlers = EmptyMap
    /\ handlersLock = [writer |-> FALSE, pending |-> FALSE, readers |-> {}]
    /\ reg = [pc |-> "idle", definition |-> ZeroTool, handler |-> NoHandler]
    /\ req = [r \in Reqs |-> Idle]
    /\ lastReg = EmptyMap
    /\ fatal = FALSE
    /\ goarch \in Archs
    /\ val = [pc |-> "off", input |-> EmptyMap, schema |-> EmptyMap,
              order |-> <<>>, err |-> NoError]

(***************************************************************************)
(* MCPServer.RegisterTool, statement by statement.                         *)
(***************************************************************************)
\* the call, up to s.handlersLock.Lock(): a Lock that has been called keeps
\* new readers out while it waits for the present ones (sync.RWMutex)
RegisterToolCall(definition, handler) ==
    /\ ~fatal
    /\ reg.pc = "idle"
    /\ handlersLock' = [handlersLock EXCEPT !.pending = TRUE]
    /\ reg' = [pc |-> "lock", definition |-> definition, handler |-> handler]
    /\ lastReg' = MapSet(lastReg, definition.Name,
                         [definition |-> definition, handler |-> handler])
    /\ UNCHANGED <<registry, handlers, req, fatal, goarch, val,
                   healthVars, mainVars, loggerVars>>

\* s.handlersLock.Lock() returns
RegisterToolLock ==
    /\ ~fatal
    /\ reg.pc = "lock"
    /\ ~handlersLock.writer /\ handlersLock.readers = {}
    /\ handlersLock' = [handlersLock EXCEPT !.writer = TRUE, !.pending = FALSE]
    /\ reg' = [reg EXCEPT !.pc = "locked"]
    /\ UNCHANGED <<registry, handlers, req, lastReg, fatal, goarch, val,
                   healthVars, mainVars, loggerVars>>

\* s.registry.RegisterTool(definition)
RegisterToolRegistry ==
    /\ ~fatal
    /\ reg.pc = "locked"
    /\ registry' = RegisterTool(registry, reg.definition)
    /\ reg' = [reg EXCEPT !.pc = "registered"]
    /\ UNCHANGED <<handlers, handlersLock, req, lastReg, fatal, goarch, val,
                   healthVars, mainVars, loggerVars>>

\* s.handlers[definition.Name] = handler, s.log.Info and the deferred
\* Unlock
RegisterToolHandler ==
    /\ ~fatal
    /\ reg.pc = "registered"
    /\ handlers' = MapSet(handlers, reg.definition.Name, reg.handler)
    /\ logger' = ServerLog(logger, Info,
                           <<"Registered tool: ", reg.definition.Name>>)
    /\ handlersLock' = [handlersLock EXCEPT !.writer = FALSE]
    /\ reg' = [pc |-> "idle", definition |-> ZeroTool, handler |-> NoHandler]
    /\ UNCHANGED <<registry, req, lastReg, fatal, goarch, val,
                   healthVars, mainVars>>

(***************************************************************************)
(* MCPServer.HandleRun.                                                    *)
(***************************************************************************)
\* an "unknown tool" message that leaves the name out
UnknownToolMessageAnonymous(toolName) == <<"Unknown tool">>

\* fmt.Sprintf("Unknown tool: %s", mcpRequest.ToolName)
UnknownToolMessage(toolName) == <<"Unknown tool: ", toolName>>

\* the request ends with an Error envelope and HandleRun returns
Fail(stage, message, statusCode) ==
    [pc |-> "done", endpoint |-> "run", mcpRequest |-> ZeroRequest,
     handler |-> NoHandler, exists |-> FALSE, toolDef |-> ZeroTool,
     stage |-> stage, elapsed |-> 0, calls |-> 0, cancelled |-> FALSE,
     ctxErr |-> "", w |-> sendErrorResponse(NewResponse, message, statusCode)]

\* the error of io.ReadAll on a body that ends before its announced
\* length, and of json.Unmarshal on a document that is cut short
BodyError(body) ==
    IF body = "unreadable" THEN <<"unexpected EOF">>
    ELSE IF body = "malformed" THEN <<"unexpected end of JSON input">>
    ELSE NoError

\* from the method check to s.log.Debug, before RLock
HandleRunReceive(r, method, body, mcpRequest) ==
    /\ ~fatal
    /\ Free(r)
    /\ req' = [req EXCEPT ![r] =
          IF method # "POST"
          THEN Fail("received", <<"Method not allowed">>,
                    StatusMethodNotAllowed)
          ELSE IF body = "unreadable"
          THEN Fail("received", <<"Failed to read request body">>,
                    StatusBadRequest)
          ELSE IF body = "malformed"
          THEN Fail("received", <<"Invalid request format">>,
                    StatusBadRequest)
          ELSE IF mcpRequest.tool_name = ""
          THEN Fail("received", <<"Missing tool_name in request">>,
                    StatusBadRequest)
          ELSE [Idle EXCEPT !.pc = "lookup", !.endpoint = "run",
                            !.mcpRequest = mcpRequest, !.stage = "received"]]
    /\ logger' =
          IF method # "POST" THEN logger
          ELSE IF body = "unreadable"
          THEN ServerLog(logger, Error,
                         <<"Failed to read request body: ">> \o BodyError(body))
          ELSE IF body = "malformed"
          THEN ServerLog(logger, Error,
                         <<"Invalid request format: ">> \o BodyError(body))
          ELSE IF mcpRequest.tool_name = "" THEN logger
          ELSE ServerLog(logger, Debug, <<"Received request for tool: ",
                                          mcpRequest.tool_name>>)
    /\ UNCHANGED <<registry, handlers, handlersLock, reg, lastReg, fatal,
                   goarch, val,
                   healthVars, mainVars>>

\* an RLock that does not wait for the writer
HandleRunRLockUnguarded(r) ==
    /\ ~fatal
    /\ req[r].pc = "lookup"
    /\ handlersLock' = [handlersLock EXCEPT !.readers = @ \cup {r}]
    /\ req' = [req EXCEPT ![r].pc = "rlocked"]
    /\ UNCHANGED <<registry, handlers, reg, lastReg, fatal, goarch, val,
                   healthVars, mainVars, loggerVars>>

\* s.handlersLock.RLock()
HandleRunRLock(r) ==
    /\ ~fatal
    /\ req[r].pc = "lookup"
    /\ ~handlersLock.writer /\ ~handlersLock.pending
    /\ handlersLock' = [handlersLock EXCEPT !.readers = @ \cup {r}]
    /\ req' = [req EXCEPT ![r].pc = "rlocked"]
    /\ UNCHANGED <<registry, handlers, reg, lastReg, fatal, goarch, val,
                   healthVars, mainVars, loggerVars>>

\* an RUnlock that leaves the caller among the readers
RUnlockNever(lock, r) == lock

\* s.handlersLock.RUnlock()
RUnlock(lock, r) == [lock EXCEPT !.readers = @ \ {r}]

\* handler, exists := s.handlers[mcpRequest.ToolName], the GetTool call and
\* s.handlersLock.RUnlock(): the goroutine goes on with what it has read
HandleRunLookup(r) ==
    /\ ~fatal
    /\ req[r].pc = "rlocked"
    /\ LET mcpRequest == req[r].mcpRequest
           exists == mcpRequest.tool_name \in DOMAIN handlers
       IN  req' = [req EXCEPT
                 ![r].pc = "unlocked",
                 ![r].exists = exists,
                 ![r].handler = IF exists THEN handlers[mcpRequest.tool_name]
                                ELSE NoHandler,
                 ![r].toolDef = GetTool(registry, mcpRequest.tool_name).tool]
    /\ handlersLock' = RUnlock(handlersLock, r)
    /\ UNCHANGED <<registry, handlers, reg, lastReg, fatal, goarch, val,
                   healthVars, mainVars, loggerVars>>

\* the rest of HandleRun, after RUnlock, up to the call of the handler;
\* order is the order in which validateParameters ranges over the schema
HandleRunDispatch(r, order) ==
    /\ ~fatal
    /\ req[r].pc = "unlocked"
    /\ LET mcpRequest == req[r].mcpRequest
           handler == req[r].handler
           toolDef == req[r].toolDef
           err == validateParameters(mcpRequest.input, toolDef.Parameters,
                                     order, goarch)
           \* the failed request, remembering the tool it named
           FailNamed(stage, message, statusCode) ==
               [Fail(stage, message, statusCode)
                   EXCEPT !.mcpRequest.tool_name = mcpRequest.tool_name]
       IN  /\ order \in RangeOrders(DOMAIN toolDef.Parameters)
           /\ req' = [req EXCEPT ![r] =
                 IF ~req[r].exists
                 THEN FailNamed("received",
                                UnknownToolMessage(mcpRequest.tool_name),
                                StatusBadRequest)
                 ELSE IF err # NoError
                 THEN FailNamed("resolved",
                                <<"Parameter validation failed: ">> \o err,
                                StatusBadRequest)
                 ELSE IF supportStreamingResponse(handler)
                 THEN IF ~FlusherOK
                      THEN FailNamed("validated",
                                     <<"Streaming not supported">>,
                                     StatusInternalServerError)
                      ELSE [req[r] EXCEPT !.pc = "streaming",
                                          !.stage = "validated",
                                          !.calls = @ + 1]
                 ELSE [req[r] EXCEPT !.pc = "executing",
                                     !.stage = "validated",
                                     !.calls = @ + 1]]
           /\ logger' =
                 IF ~req[r].exists
                 THEN ServerLog(logger, Warn, <<"Unknown tool requested: ",
                                                mcpRequest.tool_name>>)
                 ELSE IF err # NoError
                 THEN ServerLog(logger, Warn,
                                <<"Parameter validation failed for tool ",
                                  mcpRequest.tool_name, ": ">> \o err)
                 ELSE logger
    /\ UNCHANGED <<registry, handlers, handlersLock, reg, lastReg, fatal,
                   goarch, val, healthVars, mainVars>>

\* the clock advances while the goroutine is inside handler.HandleRequest;
\* when the deadline of context.WithTimeout passes, ctx is done with
\* DeadlineExceeded unless it is done already
Tick(r) ==
    /\ ~fatal
    /\ req[r].pc \in {"executing", "streaming"}
    /\ req[r].elapsed < MaxElapsed
    /\ req' = [req EXCEPT
          ![r].elapsed = @ + 1,
          ![r].ctxErr = IF /\ @ = ""
                           /\ req[r].mcpRequest.timeout > 0
                           /\ req[r].elapsed + 1 >= req[r].mcpRequest.timeout
                        THEN "context deadline exceeded" ELSE @]
    /\ UNCHANGED <<registry, handlers, handlersLock, reg, lastReg, fatal,
                   goarch, val,
                   healthVars, mainVars, loggerVars>>

\* the caller gives the request up while the handler is executing: the
\* connection closes and r.Context() is cancelled, and with it ctx unless
\* ctx is done already
ClientCancel(r) ==
    /\ ~fatal
    /\ req[r].pc = "executing"
    /\ ~req[r].cancelled
    /\ req' = [req EXCEPT
          ![r].cancelled = TRUE,
          ![r].ctxErr = IF @ = "" THEN "context canceled" ELSE @]
    /\ UNCHANGED <<registry, handlers, handlersLock, reg, lastReg, fatal,
                   goarch, val,
                   healthVars, mainVars, loggerVars>>

\* ctx.Err() of the ctx local of HandleRun: r.Context(), wrapped by
\* context.WithTimeout when the request has a timeout; the error of a
\* context is set once, by what ended it first
CtxErr(r) == req[r].ctxErr

\* what the handler is invoked with: handler.HandleRequest(mcpRequest), the
\* one method of api.Handler, takes the request and no context
HandleRequestArgs(r) == [req |-> req[r].mcpRequest]

\* what handler.HandleRequest(mcpRequest) returns: the fixed outcome of a
\* handler in the style of MockHandler, or that of a handler of package
\* arr, whose client asks its service
HandleRequest(handler, mcpRequest) ==
    IF "Client" \in DOMAIN handler
    THEN ArrHandleRequest(handler, mcpRequest.input,
                          IF handler.Client \in DOMAIN services
                          THEN services[handler.Client] ELSE NoError)
    ELSE [result |-> handler.Response, err |-> handler.Error]

\* handler.HandleRequest returns and its outcome is written: by HandleRun
\* itself, or by handleStreamingRequest after HandleRun has returned
HandlerReturn(r) ==
    /\ ~fatal
    /\ req[r].pc \in {"executing", "streaming"}
    /\ LET outcome == HandleRequest(req[r].handler, req[r].mcpRequest)
           result == outcome.result
           err == outcome.err
       IN  /\ req' = [req EXCEPT ![r].pc = "done", ![r].cancelled = FALSE,
                              ![r].ctxErr = "",
                              ![r].mcpRequest =
                                  MCPRequest(@.tool_name, EmptyMap, 0),
                              ![r].toolDef = ZeroTool, ![r].w =
                 IF req[r].pc = "streaming"
                 THEN IF err # NoError
                      THEN Encode(@, PartialErrorFrame(err, TRUE))
                      ELSE Encode(@, PartialFrame(result, TRUE))
                 ELSE IF err # NoError
                      THEN sendErrorResponse(@, err, StatusInternalServerError)
                      ELSE sendSuccessResponse(@, result)]
           \* HandleRun logs the outcome; handleStreamingRequest does not
           /\ logger' =
                 IF req[r].pc = "streaming" THEN logger
                 ELSE IF err # NoError
                 THEN ServerLog(logger, Error,
                                <<"Handler error for tool ",
                                  req[r].mcpRequest.tool_name, ": ">> \o err)
                 ELSE ServerLog(logger, Debug,
                                <<"Successfully processed request for tool: ",
                                  req[r].mcpRequest.tool_name>>)
    /\ UNCHANGED <<registry, handlers, handlersLock, reg, lastReg, fatal,
                   goarch, val,
                   healthVars, mainVars>>

(***************************************************************************)
(* MCPServer.HandleListTools.                                              *)
(***************************************************************************)
HandleListToolsReceive(r, method) ==
    /\ ~fatal
    /\ Free(r)
    /\ req' = [req EXCEPT ![r] =
          IF method # "GET"
          THEN [Fail("", <<"Method not allowed">>, StatusMethodNotAllowed)
                  EXCEPT !.endpoint = "tools"]
          ELSE [Idle EXCEPT !.pc = "listing", !.endpoint = "tools"]]
    /\ UNCHANGED <<registry, handlers, handlersLock, reg, lastReg, fatal,
                   goarch, val,
                   healthVars, mainVars, loggerVars>>

\* s.registry.ListTools(), taking no lock, and the response
HandleListToolsList(r, order) ==
    /\ ~fatal
    /\ req[r].pc = "listing"
    /\ order \in RangeOrders(DOMAIN registry)
    /\ req' = [req EXCEPT ![r].pc = "done", ![r].w =
                 Encode(@, ToolsFrame(ListTools(registry, order)))]
    /\ logger' = ServerLog(logger, Debug,
                           <<"Returning list of ", ToString(Len(order)),
                             " tools">>)
    /\ UNCHANGED <<registry, handlers, handlersLock, reg, lastReg, fatal,
                   goarch, val,
                   healthVars, mainVars>>

\* the range over the map runs while RegisterTool writes the map: the Go
\* runtime may detect it and stop the process ("concurrent map iteration
\* and map write"); when it does not, the listing is HandleListToolsList
HandleListToolsRace(r) ==
    /\ ~fatal
    /\ req[r].pc = "listing"
    /\ reg.pc = "locked"
    /\ fatal' = TRUE
    /\ UNCHANGED <<registry, handlers, handlersLock, reg, req, lastReg,
                   goarch, val,
                   healthVars, mainVars, loggerVars>>

\* when the runtime does not detect it, the listing is HandleListToolsList
\* or one that overlaps the write r.tools[tool.Name] = tool: the value is
\* copied into the map field by field, so the range can yield, under the
\* written name, a definition holding new fields next to the old ones (the
\* zero value's when the name is new)
TornTools(old, new) ==
    { [Name |-> a.Name, Description |-> b.Description,
       Parameters |-> c.Parameters] :
          <<a, b, c>> \in {<<new, old, old>>, <<new, new, old>>,
                           <<old, new, new>>, <<old, old, new>>} }

HandleListToolsTorn(r, order, torn) ==
    /\ ~fatal
    /\ req[r].pc = "listing"
    /\ reg.pc = "locked"
    /\ torn \in TornTools(GetTool(registry, reg.definition.Name).tool,
                          reg.definition)
    /\ LET tools == MapSet(registry, reg.definition.Name, torn)
       IN  /\ order \in RangeOrders(DOMAIN tools)
           /\ req' = [req EXCEPT ![r].pc = "done", ![r].w =
                        Encode(@, ToolsFrame(ListTools(tools, order)))]
           /\ logger' = ServerLog(logger, Debug,
                                  <<"Returning list of ", ToString(Len(order)),
                                    " tools">>)
    /\ UNCHANGED <<registry, handlers, handlersLock, reg, lastReg, fatal,
                   goarch, val,
                   healthVars, mainVars>>

\* Two goroutines serve requests next to the registering goroutine: "r1"
\* takes every request of ServeRequests and the listings, "r2" the run
\* requests for tool "A" with a valid input.
Next ==
    \/ \E c \in Registrations : RegisterToolCall(c.definition, c.handler)
    \/ RegisterToolLock
    \/ RegisterToolRegistry
    \/ RegisterToolHandler
    \/ \E q \in ServeRequests :
          HandleRunReceive("r1", q.method, q.body, q.mcpRequest)
    \/ HandleRunReceive("r2", "POST", "ok",
                        MCPRequest("A", ("q" :> Str("hi")), 0))
    \/ \E r \in Reqs : HandleRunRLock(r)
    \/ \E r \in Reqs : HandleRunLookup(r)
    \/ \E r \in Reqs, order \in AllOrders({"q", "n"}) :
          HandleRunDispatch(r, order)
    \/ \E r \in Reqs : Tick(r)
    \/ \E r \in Reqs : HandlerReturn(r)
    \/ \E method \in Methods : HandleListToolsReceive("r1", method)
    \/ \E order \in AllOrders(Names) : HandleListToolsList("r1", order)
    \/ HandleListToolsRace("r1")

Spec == Init /\ [][Next]_vars

(***************************************************************************)
(* One request at a time next to the registering goroutine, followed in    *)
(* full: with the caller giving the request up and with every outcome of   *)
(* a listing that overlaps a registration.                                 *)
(***************************************************************************)
\* the definitions a torn entry can be a mix of
TornEntries ==
    UNION {TornTools(old, c.definition) :
              old \in {ZeroTool} \cup {x.definition : x \in Registrations},
              c \in Registrations}

NextOne ==
    \/ \E c \in Registrations : RegisterToolCall(c.definition, c.handler)
    \/ RegisterToolLock
    \/ RegisterToolRegistry
    \/ RegisterToolHandler
    \/ \E q \in RunRequests :
          HandleRunReceive("r1", q.method, q.body, q.mcpRequest)
    \/ HandleRunRLock("r1")
    \/ HandleRunLookup("r1")
    \/ \E order \in AllOrders({"q", "n"}) : HandleRunDispatch("r1", order)
    \/ Tick("r1")
    \/ ClientCancel("r1")
    \/ HandlerReturn("r1")
    \/ \E method \in Methods : HandleListToolsReceive("r1", method)
    \/ \E order \in AllOrders(Names) : HandleListToolsList("r1", order)
    \/ HandleListToolsRace("r1")
    \/ \E order \in AllOrders(Names), torn \in TornEntries :
          HandleListToolsTorn("r1", order, torn)

SpecOne == Init /\ [][NextOne]_vars

(***************************************************************************)
(* The health endpoints: RegisterServiceChecker, HandleHealth and          *)
(* HandleServiceHealth, whose loop calls the checkers one after the other. *)
(* Time passes while the goroutine is inside a Check call; the response is *)
(* written to the connection when the handler returns, and the write fails *)
(* once the connection's write deadline (WriteTimeout after the request    *)
(* was read) has passed.                                                   *)
(***************************************************************************)
\* s.serviceCheckers = append(s.serviceCheckers, checker), with no other
\* goroutine using the slice meanwhile; s.log.Info is the goroutine's next
\* step
RegisterServiceChecker(checker) ==
    /\ regc.pc = "idle"
    /\ Len(serviceCheckers) < MaxCheckers
    /\ serviceCheckers' = Append(serviceCheckers, checker)
    /\ regc' = [pc |-> "log", checker |-> checker]
    /\ UNCHANGED <<services, hreq, serverVars, goarch, val, mainVars,
                   loggerVars>>

\* s.log.Info of RegisterServiceChecker, and the function returns
RegisterServiceCheckerLog ==
    /\ regc.pc = "log"
    /\ logger' = ServerLog(logger, Info,
                           <<"Registered health checker for service: ",
                             regc.checker.ServiceName>>)
    /\ regc' = [pc |-> "idle", checker |-> NilChecker]
    /\ UNCHANGED <<serviceCheckers, services, hreq, serverVars, goarch, val,
                   mainVars>>

\* a service goes down or comes back
ServiceChange(c, e) ==
    /\ services[c] # e
    /\ services' = [services EXCEPT ![c] = e]
    /\ UNCHANGED <<serviceCheckers, hreq, regc, serverVars, goarch, val, mainVars, loggerVars>>

\* a liveness document that reports the services' state
HealthDocumentOfServices ==
    [status |-> IF \E i \in 1..Len(serviceCheckers) :
                      services[serviceCheckers[i].id] # NoError
                THEN "degraded" ELSE "ok"]

\* map[string]string{"status": "ok"}
HealthDocument == [status |-> "ok"]

\* HandleHealth: no check of the method
HandleHealth(method) ==
    /\ hreq.pc \in {"idle", "done"}
    /\ hreq' = [HIdle EXCEPT !.pc = "done", !.endpoint = "health",
                             !.method = method,
                             !.w = Encode(WriteHeader(NewResponse, StatusOK),
                                          HealthDocument)]
    /\ UNCHANGED <<serviceCheckers, services, regc, serverVars, goarch, val,
                   mainVars, loggerVars>>

\* a handler that keeps results and allHealthy from one request to the next
HandleServiceHealthReceiveKeeping(method) ==
    /\ hreq.pc \in {"idle", "done"}
    /\ hreq' =
          IF method # "GET"
          THEN [HIdle EXCEPT !.pc = "done", !.endpoint = "service-health",
                             !.method = method,
                             !.w = sendErrorResponse(NewResponse,
                                       <<"Method not allowed">>,
                                       StatusMethodNotAllowed)]
          ELSE [HIdle EXCEPT !.pc = "range", !.endpoint = "service-health",
                             !.method = method,
                             !.checkers = serviceCheckers, !.i = 1,
                             !.calls = [k \in 1..Len(serviceCheckers) |-> 0],
                             !.results = hreq.results,
                             !.allHealthy = hreq.allHealthy]
    /\ UNCHANGED <<serviceCheckers, services, regc, serverVars, goarch, val,
                   mainVars, loggerVars>>

\* HandleServiceHealth up to the range over s.serviceCheckers, which
\* evaluates the slice once
HandleServiceHealthReceive(method) ==
    /\ hreq.pc \in {"idle", "done"}
    /\ hreq' =
          IF method # "GET"
          THEN [HIdle EXCEPT !.pc = "done", !.endpoint = "service-health",
                             !.method = method,
                             !.w = sendErrorResponse(NewResponse,
                                       <<"Method not allowed">>,
                                       StatusMethodNotAllowed)]
          ELSE [HIdle EXCEPT !.pc = "range", !.endpoint = "service-health",
                             !.method = method,
                             !.checkers = serviceCheckers, !.i = 1,
                             !.calls = [k \in 1..Len(serviceCheckers) |-> 0]]
    /\ UNCHANGED <<serviceCheckers, services, regc, serverVars, goarch, val,
                   mainVars, loggerVars>>

\* checker.Name() and the call of checker.Check()
CheckCall ==
    /\ hreq.pc = "range"
    /\ hreq.i <= Len(hreq.checkers)
    /\ hreq.checkers[hreq.i] # NilChecker
    /\ hreq' = [hreq EXCEPT !.pc = "checking", !.calls[hreq.i] = @ + 1,
                             !.spent = 0]
    /\ UNCHANGED <<serviceCheckers, services, regc, serverVars, goarch, val,
                   mainVars, loggerVars>>

\* the clock advances while the goroutine is inside checker.Check().  The
\* request of a Client ends when the deadline of its context passes;
\* the Check of another ServiceChecker returns when it does
CheckTick ==
    /\ hreq.pc = "checking"
    /\ hreq.elapsed < MaxWait
    /\ hreq.checkers[hreq.i].client => hreq.spent < CheckTimeout
    /\ LET left == CheckTimeout - hreq.spent
           step == IF hreq.checkers[hreq.i].client /\ left < TickSeconds
                   THEN left ELSE TickSeconds
       IN  hreq' = [hreq EXCEPT !.elapsed = @ + step, !.spent = @ + step]
    /\ UNCHANGED <<serviceCheckers, services, regc, serverVars, goarch, val,
                   mainVars, loggerVars>>

\* fmt.Sprintf("unhealthy: %v", err), or "healthy"
ServiceReport(err) ==
    IF err # NoError THEN <<"unhealthy: ">> \o err ELSE <<"healthy">>

\* the error of checker.Check(): for a Client that of the deadline once
\* it has passed, and what the service answers now before; for another
\* ServiceChecker what its Check returns
CheckErr(checker, spent) ==
    IF checker.client /\ spent >= CheckTimeout
    THEN CheckDeadlineExceeded(checker)
    ELSE services[checker.id]

\* checker.Check() returns; the rest of the loop body
CheckReturn ==
    /\ hreq.pc = "checking"
    /\ LET checker == hreq.checkers[hreq.i]
           err == CheckErr(checker, hreq.spent)
       IN  hreq' = [hreq EXCEPT
                 !.pc = "range", !.i = @ + 1,
                 !.results = MapSet(@, checker.ServiceName, ServiceReport(err)),
                 !.allHealthy = IF err # NoError THEN FALSE ELSE @,
                 !.errs = Append(@, err)]
    /\ UNCHANGED <<serviceCheckers, services, regc, serverVars, goarch, val,
                   mainVars, loggerVars>>

\* a status code that is 200 whatever the checkers returned
ServiceHealthStatusCodeOK(allHealthy) == StatusOK

\* statusCode of HandleServiceHealth
ServiceHealthStatusCode(allHealthy) ==
    IF ~allHealthy THEN StatusServiceUnavailable ELSE StatusOK

\* response of HandleServiceHealth
ServiceHealthDocument(allHealthy, results) ==
    [status |-> IF ~allHealthy THEN "degraded" ELSE "ok",
     services |-> results]

\* the end of the loop and the response; the write reaches the caller only
\* before the write deadline
HandleServiceHealthRespond ==
    /\ hreq.pc = "range"
    /\ hreq.i > Len(hreq.checkers)
    /\ hreq' = [hreq EXCEPT
          !.pc = "done", !.elapsed = 0, !.spent = 0,
          !.lost = hreq.elapsed > WriteTimeout,
          !.w = Encode(WriteHeader(@, ServiceHealthStatusCode(hreq.allHealthy)),
                       ServiceHealthDocument(hreq.allHealthy, hreq.results))]
    /\ UNCHANGED <<serviceCheckers, services, regc, serverVars, goarch, val,
                   mainVars, loggerVars>>

NextHealth ==
    \/ \E c \in HealthCheckers : RegisterServiceChecker(c)
    \/ RegisterServiceCheckerLog
    \/ \E c \in HealthCheckers, e \in {NoError} \cup CheckErrors :
          ServiceChange(c.id, e)
    \/ \E method \in Methods : HandleHealth(method)
    \/ \E method \in Methods : HandleServiceHealthReceive(method)
    \/ CheckCall
    \/ CheckTick
    \/ CheckReturn
    \/ HandleServiceHealthRespond

SpecHealth == Init /\ [][NextHealth]_vars

(***************************************************************************)
(* RegisterServiceChecker called while the server is serving.  It takes no *)
(* lock: append reads the slice, writes the new element (into a larger     *)
(* array when the capacity is used up, after copying the old elements) and *)
(* the assignment stores the new slice header, three words, into the       *)
(* field; HandleServiceHealth reads the header and the elements with no    *)
(* lock either.                                                            *)
(***************************************************************************)
\* the call, up to the evaluation of append
RegisterServiceCheckerCall(checker) ==
    /\ regc.pc = "idle"
    /\ Len(serviceCheckers) < MaxCheckers
    /\ regc' = [pc |-> "append", checker |-> checker]
    /\ UNCHANGED <<serviceCheckers, services, hreq, serverVars, goarch, val,
                   mainVars, loggerVars>>

\* the stores of s.serviceCheckers = append(s.serviceCheckers, checker)
\* are complete; s.log.Info is the goroutine's next step
RegisterServiceCheckerStore ==
    /\ regc.pc = "append"
    /\ serviceCheckers' = Append(serviceCheckers, regc.checker)
    /\ regc' = [regc EXCEPT !.pc = "log"]
    /\ UNCHANGED <<services, hreq, serverVars, goarch, val, mainVars,
                   loggerVars>>

\* what a range that overlaps these stores can iterate over, besides the
\* slice before and the slice after: the old or the new length, and under
\* each index the element or, where the store of the element is not yet
\* seen or the index is beyond the array read, no checker
TornSlices(old, checker) ==
    LET new == Append(old, checker)
    IN  {t \in UNION {[1..n -> {new[i] : i \in 1..Len(new)} \cup {NilChecker}] :
                          n \in {Len(old), Len(new)}} :
            \A i \in 1..Len(t) : t[i] \in {new[i], NilChecker}}
        \ {old, new}

\* HandleServiceHealth of a GET request whose read of s.serviceCheckers
\* overlaps the stores of a registration
HandleServiceHealthReceiveTorn(checkers) ==
    /\ hreq.pc \in {"idle", "done"}
    /\ regc.pc = "append"
    /\ checkers \in TornSlices(serviceCheckers, regc.checker)
    /\ hreq' = [HIdle EXCEPT !.pc = "range", !.endpoint = "service-health",
                             !.method = "GET",
                             !.checkers = checkers, !.i = 1,
                             !.calls = [k \in 1..Len(checkers) |-> 0]]
    /\ UNCHANGED <<serviceCheckers, services, regc, serverVars, goarch, val,
                   mainVars, loggerVars>>

\* checker.Name() on no checker: the goroutine panics, net/http recovers the
\* panic and closes the connection without an answer, and the goroutine ends
CheckPanic ==
    /\ hreq.pc = "range"
    /\ hreq.i <= Len(hreq.checkers)
    /\ hreq.checkers[hreq.i] = NilChecker
    /\ hreq' = [hreq EXCEPT !.pc = "panicked"]
    /\ UNCHANGED <<serviceCheckers, services, regc, serverVars, goarch, val,
                   mainVars, loggerVars>>

\* every slice a torn read can yield
AllTornSlices ==
    UNION {TornSlices(old, c) :
              old \in UNION {[1..n -> Checkers] : n \in 0..(MaxCheckers - 1)},
              c \in Checkers}

NextCheckers ==
    \/ \E c \in Checkers : RegisterServiceCheckerCall(c)
    \/ RegisterServiceCheckerStore
    \/ RegisterServiceCheckerLog
    \/ \E c \in Checkers, e \in {NoError} \cup CheckErrors :
          ServiceChange(c.id, e)
    \/ \E method \in Methods : HandleServiceHealthReceive(method)
    \/ \E checkers \in AllTornSlices : HandleServiceHealthReceiveTorn(checkers)
    \/ CheckCall
    \/ CheckPanic
    \/ CheckReturn
    \/ HandleServiceHealthRespond

SpecCheckers == Init /\ [][NextCheckers]_vars

(***************************************************************************)
(* The four endpoints together: one goroutine serving /v1/run and          *)
(* /v1/tools and one serving the health endpoints, next to the             *)
(* registrations of tools and of checkers.                                 *)
(***************************************************************************)
\* no request is being served
RunQuiet == Free("r1")
HealthQuiet == hreq.pc \in {"idle", "done"}

\* the registrations of tool "A" and the run requests that name it or no
\* tool
SerialRegistrations == {c \in Registrations : c.definition.Name = "A"}
SerialRequests ==
    {q \in ServeRequests :
        /\ q.mcpRequest.tool_name \in {"A", ""}
        /\ q.mcpRequest.tool_name = "" => q.mcpRequest.input = EmptyMap
        /\ "n" \notin DOMAIN q.mcpRequest.input}

\* requests are taken one after the other
NextServe ==
    \/ \E c \in SerialRegistrations :
          RegisterToolCall(c.definition, c.handler)
    \/ RegisterToolLock
    \/ RegisterToolRegistry
    \/ RegisterToolHandler
    \/ \E q \in SerialRequests :
          HealthQuiet /\ HandleRunReceive("r1", q.method, q.body, q.mcpRequest)
    \/ HandleRunRLock("r1")
    \/ HandleRunLookup("r1")
    \/ \E order \in AllOrders({"q", "n"}) : HandleRunDispatch("r1", order)
    \/ HandlerReturn("r1")
    \/ \E method \in Methods :
          HealthQuiet /\ HandleListToolsReceive("r1", method)
    \/ \E order \in AllOrders(Names) : HandleListToolsList("r1", order)
    \/ HandleListToolsRace("r1")
    \/ \E order \in AllOrders(Names), torn \in TornEntries :
          HandleListToolsTorn("r1", order, torn)
    \/ RegisterServiceChecker(SonarrClient)
    \/ RegisterServiceCheckerLog
    \/ \E e \in {NoError} \cup CheckErrors :
          ServiceChange(SonarrClient.id, e)
    \/ \E method \in Methods : RunQuiet /\ HandleHealth(method)
    \/ \E method \in Methods : RunQuiet /\ HandleServiceHealthReceive(method)
    \/ CheckCall
    \/ CheckReturn
    \/ HandleServiceHealthRespond

SpecServe == Init /\ [][NextServe]_vars

(***************************************************************************)
(* Package main: from the loaded configuration to the serving process.     *)
(***************************************************************************)
\* the values of the flags and environment variables
Ports == {0, 8080, 65536}
Hosts == {"", "localhost"}
\* "debug" and "verbose"
LogLevels ==
    {<<100, 101, 98, 117, 103>>, <<118, 101, 114, 98, 111, 115, 101>>}
ServiceSettings == [url : {"", "http://svc"}, key : {"", "key"}]

Configs ==
    {Config(port, host, logLevel, sonarr, radarr, prowlarr) :
        port \in Ports, host \in Hosts, logLevel \in LogLevels,
        sonarr \in ServiceSettings, radarr \in ServiceSettings,
        prowlarr \in ServiceSettings}

\* "debug", "info", "warn" and "error"
validLevels ==
    {<<100, 101, 98, 117, 103>>, <<105, 110, 102, 111>>,
     <<119, 97, 114, 110>>, <<101, 114, 114, 111, 114>>}

validateConfig(c) ==
    IF c.Host = "" THEN <<"host cannot be empty">>
    ELSE IF c.Port <= 0 \/ c.Port > 65535
    THEN <<"port must be between 1 and 65535">>
    ELSE IF c.LogLevel \notin validLevels
    THEN <<"log level must be one of: debug, info, warn, error">>
    ELSE IF /\ (c.SonarrURL = "" \/ c.SonarrAPIKey = "")
            /\ (c.RadarrURL = "" \/ c.RadarrAPIKey = "")
            /\ (c.ProwlarrURL = "" \/ c.ProwlarrAPIKey = "")
    THEN <<"at least one service (Sonarr, Radarr, or Prowlarr) must be configured">>
    ELSE NoError

\* getClients: which clients are not nil
getClients(c) ==
    [sonarr |-> c.SonarrURL # "" /\ c.SonarrAPIKey # "",
     radarr |-> c.RadarrURL # "" /\ c.RadarrAPIKey # "",
     prowlarr |-> c.ProwlarrURL # "" /\ c.ProwlarrAPIKey # ""]

\* a RegisterTool call of setupServer
SetupTool(name, description, parameters) ==
    [definition |-> ToolDefinition(name, description, parameters),
     handler |-> ArrHandler(name)]

SchemaQuery == ("query" :> Param("string", TRUE))

SonarrTools ==
    << SetupTool("SonarrSearch", "Search for TV shows in Sonarr", SchemaQuery),
       SetupTool("SonarrList", "List TV shows in Sonarr", EmptyMap),
       SetupTool("SonarrAddSeries", "Add a new TV series to Sonarr",
                 ("seriesData" :> Param("object", TRUE))),
       SetupTool("SonarrGetProfiles", "Get quality profiles from Sonarr",
                 EmptyMap),
       SetupTool("SonarrGetRootFolders", "Get root folders from Sonarr",
                 EmptyMap) >>

RadarrTools ==
    << SetupTool("RadarrSearch", "Search for movies in Radarr", SchemaQuery),
       SetupTool("RadarrList", "List movies in Radarr", EmptyMap),
       SetupTool("RadarrAddMovie", "Add a new movie to Radarr",
                 ("movieData" :> Param("object", TRUE))),
       SetupTool("RadarrGetProfiles", "Get quality profiles from Radarr",
                 EmptyMap),
       SetupTool("RadarrGetRootFolders", "Get root folders from Radarr",
                 EmptyMap) >>

ProwlarrTools ==
    << SetupTool("ProwlarrSearch",
                 "Search for content using Prowlarr indexers",
                 SchemaQuery @@ ("categories" :> Param("array", FALSE))),
       SetupTool("ProwlarrIndexers", "List Prowlarr indexers", EmptyMap) >>

\* the RegisterTool and RegisterServiceChecker calls of setupServer, in order
SetupTools(clients) ==
    (IF clients.sonarr THEN SonarrTools ELSE <<>>)
    \o (IF clients.radarr THEN RadarrTools ELSE <<>>)
    \o (IF clients.prowlarr THEN ProwlarrTools ELSE <<>>)

SetupCheckers(c) ==
    (IF getClients(c).sonarr
     THEN <<[SonarrClient EXCEPT !.BaseURL = c.SonarrURL]>> ELSE <<>>)
    \o (IF getClients(c).radarr
        THEN <<[RadarrClient EXCEPT !.BaseURL = c.RadarrURL]>> ELSE <<>>)
    \o (IF getClients(c).prowlarr
        THEN <<[ProwlarrClient EXCEPT !.BaseURL = c.ProwlarrURL]>> ELSE <<>>)

\* the tool map after the first n calls
RECURSIVE SetupRegistry(_, _)
SetupRegistry(calls, n) ==
    IF n = 0 THEN EmptyMap
    ELSE RegisterTool(SetupRegistry(calls, n - 1), calls[n].definition)

\* the handler map, and the history of the calls, after them
SetupHandlers(calls) ==
    [name \in {calls[i].definition.Name : i \in 1..Len(calls)} |->
        ArrHandler(name)]
SetupLastReg(calls) ==
    [name \in {calls[i].definition.Name : i \in 1..Len(calls)} |->
        SetupTool(name, SetupRegistry(calls, Len(calls))[name].Description,
                  SetupRegistry(calls, Len(calls))[name].Parameters)]

\* validateConfig and, when it fails, os.Exit(1)
MainValidateConfig ==
    /\ main.pc = "loaded"
    /\ LET err == validateConfig(config)
       IN  main' = IF err # NoError
                   THEN [main EXCEPT !.pc = "exited", !.code = 1, !.err = err]
                   ELSE [main EXCEPT !.pc = "validated"]
    /\ UNCHANGED <<config, serverVars, healthVars, goarch, val, loggerVars>>

\* what the calls of setupServer log, in order: for each client its
\* checker, then its tools
Registered(checker, tools) ==
    <<<<"Registered health checker for service: ", checker.ServiceName>>>>
    \o [i \in 1..Len(tools) |->
           <<"Registered tool: ", tools[i].definition.Name>>]
SetupMessages(clients) ==
    (IF clients.sonarr THEN Registered(SonarrClient, SonarrTools) ELSE <<>>)
    \o (IF clients.radarr THEN Registered(RadarrClient, RadarrTools)
        ELSE <<>>)
    \o (IF clients.prowlarr THEN Registered(ProwlarrClient, ProwlarrTools)
        ELSE <<>>)

\* MCPServer.SetLogLevel on the server's logger l
SetLogLevel(l, level) ==
    Log([l EXCEPT !.level = SetLevel(@, level)], Info,
        <<<<"Log level set to: ", level>>>>)

\* getClients, setupServer and mcpServer.SetLogLevel(config.LogLevel); the
\* logger followed is the server's (s.log)
MainSetupServer ==
    /\ main.pc = "validated"
    /\ LET calls == SetupTools(getClients(config))
       IN  /\ registry' = SetupRegistry(calls, Len(calls))
           /\ handlers' = SetupHandlers(calls)
           /\ lastReg' = SetupLastReg(calls)
    /\ serviceCheckers' = SetupCheckers(config)
    /\ logger' = SetLogLevel(Log(logger, Info,
                                 SetupMessages(getClients(config))),
                             config.LogLevel)
    /\ main' = [main EXCEPT !.pc = "setup"]
    /\ UNCHANGED <<config, handlersLock, reg, req, fatal, services, hreq, regc,
                   goarch, val>>

MaxSignals == 2         \* most signals sent to the process
\* cap(stop): make(chan os.Signal, 1)
StopCap == 1

\* signal.Notify and the go statement: the goroutine that will call Start
\* exists and main goes on to wait at <-stop
MainStart ==
    /\ main.pc = "setup"
    /\ main' = [main EXCEPT !.pc = "serving", !.start = "spawned"]
    /\ UNCHANGED <<config, serverVars, healthVars, goarch, val, loggerVars>>

\* the process is running: main has not returned, exited or panicked
Running == main.pc \in {"serving", "received", "shutting", "shutdown"}

\* SIGINT or SIGTERM: package signal sends on stop without blocking, so
\* the signal is dropped when the buffer is full
Signal ==
    /\ Running
    /\ main.signals < MaxSignals
    /\ main' = [main EXCEPT !.signals = @ + 1,
                            !.stop = IF @ < StopCap THEN @ + 1 ELSE @]
    /\ UNCHANGED <<config, serverVars, healthVars, goarch, val, loggerVars>>

\* Start up to s.server = &http.Server{...}
StartCreateServer ==
    /\ Running
    /\ main.start = "spawned"
    /\ main' = [main EXCEPT !.server = "set", !.start = "log"]
    /\ UNCHANGED <<config, serverVars, healthVars, goarch, val, loggerVars>>

\* addr of main: fmt.Sprintf("%s:%d", config.Host, config.Port)
Addr(c) == <<c.Host, ":", ToString(c.Port)>>

\* the errors of ListenAndServe: http.ErrServerClosed, and the
\* *net.OpError of a listen on an address in use, which names the address
\* the host resolved to (localhost is 127.0.0.1)
ErrServerClosed == <<"http: Server closed">>
ErrListen(c) ==
    <<"listen tcp ", IF c.Host = "localhost" THEN "127.0.0.1" ELSE c.Host,
      ":", ToString(c.Port), ": bind: address already in use">>

\* s.log.Info of Start
StartLog ==
    /\ Running
    /\ main.start = "log"
    /\ main' = [main EXCEPT !.start = "listen"]
    /\ logger' = Log(logger, Info,
                     <<<<"Starting HTTP server on ">> \o Addr(config)>>)
    /\ UNCHANGED <<config, serverVars, healthVars, goarch, val>>

\* s.server.ListenAndServe(): it serves, or returns an error at once (the
\* address cannot be listened on, or Shutdown has been called already)
StartListen(ok) ==
    /\ Running
    /\ main.start = "listen"
    /\ ok => ~main.shut
    /\ main' = [main EXCEPT
          !.start = IF ok THEN "serve" ELSE "send",
          !.startErr = IF ok THEN NoError
                       ELSE IF main.shut THEN ErrServerClosed
                       ELSE ErrListen(config)]
    /\ UNCHANGED <<config, serverVars, healthVars, goarch, val, loggerVars>>

\* ListenAndServe returns ErrServerClosed once Shutdown has been called,
\* and Start returns it to the goroutine of main
StartServeReturn ==
    /\ Running
    /\ main.start = "serve"
    /\ main.shut
    /\ main' = [main EXCEPT !.start = "send", !.startErr = ErrServerClosed]
    /\ UNCHANGED <<config, serverVars, healthVars, goarch, val, loggerVars>>

\* stop <- syscall.SIGTERM, after log.Error: the send waits for room
StartSend ==
    /\ Running
    /\ main.start = "send"
    /\ main.stop < StopCap
    /\ main' = [main EXCEPT !.stop = @ + 1, !.start = "done"]
    /\ UNCHANGED <<config, serverVars, healthVars, goarch, val, loggerVars>>

\* <-stop
MainReceive ==
    /\ main.pc = "serving"
    /\ main.stop > 0
    /\ main' = [main EXCEPT !.pc = "received", !.stop = @ - 1]
    /\ UNCHANGED <<config, serverVars, healthVars, goarch, val, loggerVars>>

\* mcpServer.Shutdown(ctx) up to its s.log.Info
MainShutdownLog ==
    /\ main.pc = "received"
    /\ main' = [main EXCEPT !.pc = "shutting"]
    /\ logger' = Log(logger, Info, <<<<"Shutting down server...">>>>)
    /\ UNCHANGED <<config, serverVars, healthVars, goarch, val>>

\* s.server.Shutdown(ctx).  With s.server nil the call dereferences a nil
\* *http.Server and main panics (exit status 2); otherwise the server
\* stops listening and main waits inside Shutdown
MainShutdownCall ==
    /\ main.pc = "shutting"
    /\ main' = IF main.server = "nil"
               THEN [main EXCEPT !.pc = "panicked", !.code = 2]
               ELSE [main EXCEPT !.pc = "shutdown", !.shut = TRUE]
    /\ UNCHANGED <<config, serverVars, healthVars, goarch, val, loggerVars>>

\* s.server.Shutdown returns, when the connections are idle or the 15
\* seconds of ctx have passed; main logs "Server shutdown complete" and
\* returns, which ends the process
MainShutdownReturn ==
    /\ main.pc = "shutdown"
    /\ main' = [main EXCEPT !.pc = "complete"]
    /\ UNCHANGED <<config, serverVars, healthVars, goarch, val, loggerVars>>

InitMain ==
    /\ HealthInit
    /\ LoggerInit
    /\ config \in Configs
    /\ main = [MainIdle EXCEPT !.pc = "loaded"]
    /\ registry = EmptyMap
    /\ handlers = EmptyMap
    /\ handlersLock = [writer |-> FALSE, pending |-> FALSE, readers |-> {}]
    /\ reg = [pc |-> "idle", definition |-> ZeroTool, handler |-> NoHandler]
    /\ req = [r \in Reqs |-> Idle]
    /\ lastReg = EmptyMap
    /\ fatal = FALSE
    /\ goarch \in Archs
    /\ val = [pc |-> "off", input |-> EmptyMap, schema |-> EmptyMap,
              order |-> <<>>, err |-> NoError]

NextMain ==
    \/ MainValidateConfig
    \/ MainSetupServer
    \/ MainStart
    \/ Signal
    \/ StartCreateServer
    \/ StartLog
    \/ \E ok \in BOOLEAN : StartListen(ok)
    \/ StartSend
    \/ StartServeReturn
    \/ MainReceive
    \/ MainShutdownLog
    \/ MainShutdownCall
    \/ MainShutdownReturn

SpecMain == InitMain /\ [][NextMain]_vars

(***************************************************************************)
(* Package logger: one Logger used by several goroutines.  A goroutine     *)
(* logs at a level (Debug, Info, Warn, Error call log), or calls SetLevel  *)
(* or SetOutput.                                                           *)
(***************************************************************************)
MaxLogEntries == 2      \* entries followed on the output

\* the arguments of the calls
\* "Debug", "warn", "verbose", and "INFO" spelt with U+0130, the capital
\* I with a dot
LevelNames ==
    {<<68, 101, 98, 117, 103>>, <<119, 97, 114, 110>>,
     <<118, 101, 114, 98, 111, 115, 101>>, <<304, 78, 70, 79>>}
CallLevels == {Debug, Warn}
Writers == {"stdout", "buffer"}

notLogger == <<serverVars, goarch, val, healthVars, mainVars>>

\* l.mu.Lock() returns
MuLock(c, to) ==
    /\ logger.mu = ""
    /\ logger' = [logger EXCEPT !.mu = c, !.g[c].pc = to]

\* Debug, Info, Warn or Error calls l.log(level, ...)
LogCall(c, level) ==
    /\ logger.g[c].pc = "idle"
    /\ Len(logger.entries) < MaxLogEntries
    /\ logger' = [logger EXCEPT !.g[c] = [LogIdle EXCEPT !.pc = "level",
                                                         !.level = level]]
    /\ UNCHANGED notLogger

\* if level < l.level { return }: the read of l.level, before l.mu.Lock()
LogLevel(c) ==
    /\ logger.g[c].pc = "level"
    /\ logger' = IF logger.g[c].level < logger.level
                 THEN [logger EXCEPT !.g[c] = LogIdle]
                 ELSE [logger EXCEPT !.g[c].pc = "lock"]
    /\ UNCHANGED notLogger

LogLock(c) ==
    /\ logger.g[c].pc = "lock"
    /\ MuLock(c, "write")
    /\ UNCHANGED notLogger

\* the entry is formatted
LogFormat(c) ==
    /\ logger.g[c].pc = "write"
    /\ logger' = [logger EXCEPT !.g[c].pc = "writing"]
    /\ UNCHANGED notLogger

\* io.WriteString(l.writer, logEntry) and the deferred Unlock
LogWrite(c) ==
    /\ logger.g[c].pc = "writing"
    /\ logger' = [logger EXCEPT
          !.entries = Append(@, LogEntry(logger.g[c].level, <<"message">>,
                                         logger.writer)),
          !.mu = "", !.g[c] = LogIdle]
    /\ UNCHANGED notLogger

SetLevelCall(c, name) ==
    /\ logger.g[c].pc = "idle"
    /\ logger' = [logger EXCEPT !.g[c] = [LogIdle EXCEPT !.pc = "setlevel",
                                                         !.name = name]]
    /\ UNCHANGED notLogger

SetLevelLock(c) ==
    /\ logger.g[c].pc = "setlevel"
    /\ MuLock(c, "level=")
    /\ UNCHANGED notLogger

\* the lookup of strings.ToLower(level) in stringToLevel,
\* l.level = newLevel, and the deferred Unlock
SetLevelStore(c) ==
    /\ logger.g[c].pc = "level="
    /\ logger' = [logger EXCEPT
          !.level = SetLevel(@, logger.g[c].name),
          !.mu = "", !.g[c] = LogIdle]
    /\ UNCHANGED notLogger

SetOutputCall(c, w) ==
    /\ logger.g[c].pc = "idle"
    /\ logger' = [logger EXCEPT !.g[c] = [LogIdle EXCEPT !.pc = "setoutput",
                                                         !.w = w]]
    /\ UNCHANGED notLogger

SetOutputLock(c) ==
    /\ logger.g[c].pc = "setoutput"
    /\ MuLock(c, "writer=")
    /\ UNCHANGED notLogger

\* l.writer = w, and the deferred Unlock
SetOutputStore(c) ==
    /\ logger.g[c].pc = "writer="
    /\ logger' = [logger EXCEPT !.writer = logger.g[c].w, !.mu = "",
                                !.g[c] = LogIdle]
    /\ UNCHANGED notLogger

NextLogger ==
    \E c \in LogCallers :
        \/ \E level \in CallLevels : LogCall(c, level)
        \/ LogLevel(c)
        \/ LogLock(c)
        \/ LogFormat(c)
        \/ LogWrite(c)
        \/ \E name \in LevelNames : SetLevelCall(c, name)
        \/ SetLevelLock(c)
        \/ SetLevelStore(c)
        \/ \E w \in Writers : SetOutputCall(c, w)
        \/ SetOutputLock(c)
        \/ SetOutputStore(c)

SpecLogger == Init /\ [][NextLogger]_vars

(***************************************************************************)
(* validateParameters on its own: the arguments are drawn from the sets    *)
(* below and one call is made.  Parameter "a" takes every kind of schema   *)
(* entry and every kind of value, "b" is a second declared parameter and   *)
(* "x" a key no schema declares.                                           *)
(***************************************************************************)
Types == {"string", "number", "integer", "boolean", "array", "object"}

ValValues ==
    { Str("5"), Num(5, 0), Num(11, -1), Num(-3, 0), Num(0, 0),
      Num(1, IntBits - 1), Num(-1, IntBits - 1), Num(1, IntBits),
      Bool(TRUE), Arr("[1,2]"), Arr("[\"u\",null]"), Obj("{}"), Null }

\* the maps with the given keys and values; each key may be absent
RECURSIVE MapsOver(_)
MapsOver(choices) ==
    IF DOMAIN choices = {} THEN {EmptyMap}
    ELSE LET key == CHOOSE x \in DOMAIN choices : TRUE
             rest == MapsOver([x \in DOMAIN choices \ {key} |-> choices[x]])
         IN  rest \cup {MapSet(m, key, v) : m \in rest, v \in choices[key]}

ValInputs ==
    MapsOver(("a" :> ValValues)
             @@ ("b" :> {Str("s"), Num(5, 0), Bool(FALSE)})
             @@ ("x" :> {Num(11, -1)}))

ValSchemas ==
    MapsOver(("a" :> ({Param(t, q) : t \in Types \cup {"", "float"},
                                     q \in BOOLEAN} \cup {NotAnObject}))
             @@ ("b" :> {Param("string", TRUE), Param("boolean", FALSE)}))

InitValidate ==
    /\ HealthInit
    /\ LoggerInit
    /\ MainOff
    /\ registry = EmptyMap
    /\ handlers = EmptyMap
    /\ handlersLock = [writer |-> FALSE, pending |-> FALSE, readers |-> {}]
    /\ reg = [pc |-> "idle", definition |-> ZeroTool, handler |-> NoHandler]
    /\ req = [r \in Reqs |-> Idle]
    /\ lastReg = EmptyMap
    /\ fatal = FALSE
    /\ goarch \in Archs
    /\ val \in {[pc |-> "call", input |-> i, schema |-> s, order |-> <<>>,
                  err |-> NoError] : i \in ValInputs, s \in ValSchemas}

\* one call of validateParameters, ranging over the schema in some order
Validate(order) ==
    /\ val.pc = "call"
    /\ order \in RangeOrders(DOMAIN val.schema)
    /\ val' = [val EXCEPT !.pc = "returned", !.order = order,
                          !.err = validateParameters(val.input, val.schema,
                                                     order, goarch)]
    /\ UNCHANGED <<serverVars, goarch, healthVars, mainVars, loggerVars>>

NextValidate ==
    \E order \in AllOrders({"a", "b"}) : Validate(order)

SpecValidate == InitValidate /\ [][NextValidate]_vars

(***************************************************************************)
(* Properties.                                                             *)
(***************************************************************************)
RunReqs == {r \in Reqs : req[r].endpoint = "run"}

\* C1: a run request with timeout > 0 is answered no later than its
\* deadline: the goroutine is never still inside the handler call once more
\* than timeout ticks have passed since the call began.
C1_AnsweredByDeadline ==
    \A r \in RunReqs :
        (req[r].pc = "executing" /\ req[r].mcpRequest.timeout > 0)
            => req[r].elapsed <= req[r].mcpRequest.timeout

\* C2: no lookup and no listing is about to read the registry's tool map
\* while RegisterTool is about to write it (the two accesses are never
\* enabled together).
C2_ReaderWriterDiscipline ==
    reg.pc = "locked" => \A r \in Reqs : req[r].pc \notin {"rlocked", "listing"}

\* every entry of the schema passes the check of the loop body
AllParamsPass(input, schema, arch) ==
    \A p \in DOMAIN schema : CheckParam(input, p, schema[p], arch) = NoError

\* C3: the handler is invoked only for a resolved tool name and an input
\* that passes every check of the resolved schema, and at most once per
\* request: once when validation passed, never when the request failed at
\* the name or at validation, and not again after it returned.
C3_HandlerAfterValidation ==
    \A r \in RunReqs :
        /\ req[r].calls <= 1
        /\ req[r].calls = 1 <=> req[r].stage = "validated"
        /\ req[r].pc \in {"executing", "streaming"} =>
              /\ req[r].mcpRequest.tool_name # ""
              /\ req[r].toolDef.Name = req[r].mcpRequest.tool_name
              /\ req[r].handler \in Handlers
              /\ AllParamsPass(req[r].mcpRequest.input,
                               req[r].toolDef.Parameters, goarch)

\* a handler returned an error and was not called again, and another
\* request failed validation without a call
C3_Witness ==
    \E r1, r2 \in RunReqs :
        /\ req[r1].pc = "done" /\ req[r1].calls = 1
        /\ req[r1].handler.Error # NoError
        /\ req[r2].pc = "done" /\ req[r2].stage = "resolved"
        /\ req[r2].calls = 0

Terminal(frame) ==
    frame.type \in {"final", "error"} \/ (frame.type = "partial" /\ frame.done)

\* C4: when HandleRun has returned, the response holds exactly one frame
\* and it is terminal (Final, Error or Partial with done); before that
\* nothing has been written.  A frame written after the return would leave
\* a returned request with no frame, and then with a frame it did not have.
C4_OneTerminalFrame ==
    \A r \in RunReqs :
        IF Returned(r)
        THEN Len(req[r].w.frames) = 1 /\ Terminal(req[r].w.frames[1])
        ELSE req[r].w.frames = <<>>

C4_Witness ==
    \E r1, r2 \in RunReqs :
        /\ req[r1].pc = "done" /\ req[r1].w.frames[1].type = "final"
        /\ req[r2].pc = "done" /\ req[r2].w.frames[1].type = "error"
        /\ req[r2].calls = 1

\* C5: once RegisterTool calls have returned, every registered name looks
\* up to the definition (and maps to the handler) of its last registration
\* and every listing holds exactly one entry of that name and as many
\* entries as there are distinct registered names.
C5_LastRegistrationWins ==
    reg.pc = "idle" =>
        \A n \in DOMAIN lastReg :
            /\ GetTool(registry, n) =
                  [tool |-> lastReg[n].definition, exists |-> TRUE]
            /\ n \in DOMAIN handlers /\ handlers[n] = lastReg[n].handler
            /\ \A order \in RangeOrders(DOMAIN registry) :
                  LET tools == ListTools(registry, order)
                  IN  /\ Cardinality({i \in 1..Len(tools) :
                                         tools[i].Name = n}) = 1
                      /\ Len(tools) = Cardinality(DOMAIN lastReg)

\* both names are registered and an earlier listing shows a definition of
\* "A" that has been replaced since
C5_Witness ==
    /\ reg.pc = "idle"
    /\ DOMAIN registry = Names
    /\ \E r \in Reqs :
          /\ req[r].endpoint = "tools" /\ req[r].pc = "done"
          /\ req[r].w.code = StatusOK
          /\ \E i \in 1..Len(req[r].w.frames[1].tools) :
                /\ req[r].w.frames[1].tools[i].Name = "A"
                /\ req[r].w.frames[1].tools[i] # registry["A"]

\* the parameters the schema requires and the input lacks
MissingRequired(input, schema) ==
    {p \in DOMAIN schema : schema[p].required /\ p \notin DOMAIN input}

\* the type rules of the specification: integer is a number with zero
\* fractional part
HasDeclaredType(value, type) ==
    CASE type = "string" -> value.k = "string"
      [] type = "number" -> value.k = "float64"
      [] type = "integer" -> value.k = "float64" /\ value.e >= 0
      [] type = "boolean" -> value.k = "bool"
      [] type = "array" -> value.k = "array"
      [] type = "object" -> value.k = "object"
      [] OTHER -> TRUE

C6_Step(r) ==
    LET q == req[r].mcpRequest
        schema == req[r].toolDef.Parameters
        missing == MissingRequired(q.input, schema)
    IN  (req[r].pc = "unlocked" /\ req'[r].pc # "unlocked"
            /\ req[r].exists) =>
          /\ missing # {} =>
                /\ req'[r].pc = "done" /\ req'[r].calls = 0
                /\ req'[r].w.code = StatusBadRequest
                /\ \E p \in missing : req'[r].w.frames =
                      <<ErrorFrame(<<"Parameter validation failed: ",
                                     "required parameter missing: ", p>>)>>
          /\ (missing = {}
                /\ \A p \in DOMAIN schema \cap DOMAIN q.input :
                      HasDeclaredType(q.input[p], schema[p].type))
                => req'[r].stage = "validated"

\* C6: when the schema the lookup resolved requires a parameter the input
\* lacks, the request is answered 400 with an Error envelope that reports a
\* missing parameter and names such a parameter, and the handler is not
\* invoked; when every required parameter is present and every present
\* declared parameter has its declared type, validation succeeds.
C6_RequiredParameters == [][\A r \in Reqs : C6_Step(r)]_vars

\* C7: a present parameter declared integer (the only one declared) is
\* accepted exactly when its value is a number with zero fractional part,
\* whatever its magnitude.
C7_IntegerAcceptance ==
    (/\ val.pc = "returned"
     /\ DOMAIN val.schema = {"a"}
     /\ val.schema["a"].obj /\ val.schema["a"].type = "integer"
     /\ "a" \in DOMAIN val.input)
        => (val.err = NoError
              <=> (val.input["a"].k = "float64" /\ val.input["a"].e >= 0))

\* the JSON type of a decoded value, in the schema's vocabulary
RuntimeType(value) ==
    CASE value.k = "string" -> "string"
      [] value.k = "float64" -> "number"
      [] value.k = "bool" -> "boolean"
      [] value.k = "array" -> "array"
      [] value.k = "object" -> "object"
      [] OTHER -> "null"

FiveTypes == {"string", "number", "boolean", "array", "object"}

\* the schemas whose entries all declare one of the five types
FiveTyped(schema) ==
    \A p \in DOMAIN schema : schema[p].obj /\ schema[p].type \in FiveTypes

\* two inputs that differ only in keys the schema does not declare and in
\* the elements of arrays
SameDeclared(i1, i2, schema) ==
    \A p \in DOMAIN schema :
        /\ p \in DOMAIN i1 <=> p \in DOMAIN i2
        /\ p \in DOMAIN i1 =>
              /\ i1[p].k = i2[p].k
              /\ i1[p].k # "array" => i1[p] = i2[p]

\* C8: for a schema declaring string, number, boolean, array or object
\* parameters, validateParameters returns nil exactly when every declared
\* parameter is present if required and, if present, has a value whose
\* top-level runtime type is the declared one; inputs that differ only in
\* undeclared keys or in array elements get the same verdict.
C8_ValidationVerdict ==
    (val.pc = "returned" /\ FiveTyped(val.schema)) =>
        /\ val.err = NoError <=>
              \A p \in DOMAIN val.schema :
                  /\ val.schema[p].required => p \in DOMAIN val.input
                  /\ p \in DOMAIN val.input =>
                        RuntimeType(val.input[p]) = val.schema[p].type
        /\ \A i2 \in ValInputs :
              SameDeclared(val.input, i2, val.schema) =>
                \A order \in RangeOrders(DOMAIN val.schema) :
                    (validateParameters(i2, val.schema, order, goarch) = NoError)
                        <=> (val.err = NoError)

\* an array whose elements are of mixed types passes, next to a second
\* declared parameter and a key the schema does not declare
C8_Witness ==
    /\ val.pc = "returned" /\ FiveTyped(val.schema)
    /\ DOMAIN val.schema = {"a", "b"}
    /\ val.schema["a"].type = "array"
    /\ DOMAIN val.input = {"a", "b", "x"}
    /\ val.input["a"] = Arr("[\"u\",null]")
    /\ val.err = NoError

\* C9: a run request whose handler returned an error is answered 500 with
\* one Error envelope whose message is the handler's error text, and with
\* no Final frame.
C9_HandlerErrorVerbatim ==
    \A r \in RunReqs :
        (req[r].pc = "done" /\ req[r].calls = 1
            /\ req[r].handler.Error # NoError) =>
          /\ req[r].w.code = StatusInternalServerError
          /\ req[r].w.frames = <<ErrorFrame(req[r].handler.Error)>>

C9_Witness ==
    \E r \in RunReqs :
        /\ req[r].pc = "done" /\ req[r].calls = 1
        /\ req[r].handler = HandlerErr
        /\ req[r].w.frames[1].message = <<"boom">>

\* C10: a run request whose handler returned a value and no error is
\* answered 200 with exactly one frame, of type "final", whose result is
\* the value the handler returned.
C10_FinalWrapsResult ==
    \A r \in RunReqs :
        (req[r].pc = "done" /\ req[r].calls = 1
            /\ req[r].handler.Error = NoError) =>
          /\ req[r].w.code = StatusOK
          /\ req[r].w.frames = <<FinalFrame(req[r].handler.Response)>>

C10_Witness ==
    \E r \in RunReqs :
        /\ req[r].pc = "done" /\ req[r].calls = 1
        /\ req[r].handler = HandlerOK
        /\ req[r].w.frames[1].result = Obj("result")

\* C11: a run request that names a tool which is not registered when the
\* name is looked up is answered 400 with one Error envelope whose message
\* holds that name, whatever its input: the lookup finds no handler, and a
\* request whose lookup found none ends at the resolution (stage
\* "received"), before validation, and the handler is not invoked.
C11_UnknownTool ==
    [][\A r \in Reqs :
        /\ (/\ req[r].pc = "rlocked" /\ req'[r].pc # "rlocked"
            /\ req[r].mcpRequest.tool_name \notin DOMAIN registry) =>
              /\ req'[r].pc = "unlocked" /\ ~req'[r].exists
              /\ req'[r].w = NewResponse
        /\ (req[r].pc = "unlocked" /\ req'[r].pc # "unlocked"
                /\ ~req[r].exists) =>
              /\ req'[r].pc = "done" /\ req'[r].stage = "received"
              /\ req'[r].calls = 0
              /\ req'[r].w.code = StatusBadRequest
              /\ Len(req'[r].w.frames) = 1
              /\ req'[r].w.frames[1].type = "error"
              /\ \E i \in 1..Len(req'[r].w.frames[1].message) :
                    req'[r].w.frames[1].message[i] =
                        req[r].mcpRequest.tool_name]_vars

\* "B" was asked for while only "A" was registered
C11_Witness ==
    /\ DOMAIN registry = {"A"} /\ DOMAIN handlers = {"A"}
    /\ \E r \in RunReqs :
          /\ req[r].pc = "done" /\ req[r].mcpRequest.tool_name = "B"
          /\ req[r].w.frames = <<ErrorFrame(<<"Unknown tool: ", "B">>)>>

\* C12: a run request that has returned without its handler being invoked
\* (wrong method, unreadable or unparseable body, empty tool name, unknown
\* tool, invalid parameter, streaming unsupported) or whose handler
\* returned an error has exactly one frame, of type "error", and a 4xx or
\* 5xx status; so has every returned request whose tool name is empty.
C12_FailuresAreErrors ==
    \A r \in RunReqs :
        (/\ Returned(r)
         /\ \/ req[r].calls = 0
            \/ req[r].handler.Error # NoError
            \/ req[r].mcpRequest.tool_name = "") =>
            /\ Len(req[r].w.frames) = 1
            /\ req[r].w.frames[1].type = "error"
            /\ req[r].w.code \in 400..599

\* one request failed at the empty tool name while another failed in its
\* handler
C12_Witness ==
    \E r1, r2 \in RunReqs :
        /\ req[r1].pc = "done" /\ req[r1].mcpRequest.tool_name = ""
        /\ req[r1].w.frames =
              <<ErrorFrame(<<"Missing tool_name in request">>)>>
        /\ req[r2].pc = "done" /\ req[r2].calls = 1
        /\ req[r2].handler.Error # NoError
        /\ req[r2].w.code = StatusInternalServerError

\* C18: every answer to GET /v1/tools has status 200 and one document whose
\* tools list holds the definitions registered when the listing is made,
\* each registered name once (the empty list when there are none).
C18_ListsRegisteredTools ==
    [][\A r \in Reqs :
          (req[r].pc = "listing" /\ req'[r].pc = "done") =>
              /\ req'[r].w.code = StatusOK
              /\ \E order \in RangeOrders(DOMAIN registry) :
                    req'[r].w.frames =
                        <<ToolsFrame(ListTools(registry, order))>>]_vars

\* C19: while the handler is executing, once the context of the request is
\* done (its deadline has passed or the caller has cancelled it), the
\* handler's invocation holds that context and its error, so the operation
\* is told to stop.
C19_SignalPropagated ==
    \A r \in RunReqs :
        (req[r].pc = "executing" /\ CtxErr(r) # "") =>
            /\ "ctx" \in DOMAIN HandleRequestArgs(r)
            /\ HandleRequestArgs(r).ctx = CtxErr(r)

\* the service-health check has been answered
HealthChecked ==
    hreq.pc = "done" /\ hreq.endpoint = "service-health" /\ hreq.method = "GET"

\* C13: an answered service-health check has called every checker of the
\* list once in this request, and answers 503 with status "degraded" if one
\* of those calls returned an error and 200 with status "ok" otherwise,
\* also when the list is empty.
C13_ServiceHealthStatus ==
    HealthChecked =>
        LET failed == \E i \in 1..Len(hreq.errs) : hreq.errs[i] # NoError
        IN  /\ Len(hreq.errs) = Len(hreq.checkers)
            /\ \A i \in 1..Len(hreq.checkers) : hreq.calls[i] = 1
            /\ Len(hreq.w.frames) = 1
            /\ hreq.w.code = IF failed THEN 503 ELSE 200
            /\ hreq.w.frames[1].status = IF failed THEN "degraded" ELSE "ok"

\* a check of two checkers, the second failing, answered while that
\* service is up again
C13_Witness ==
    /\ HealthChecked
    /\ hreq.errs = <<NoError, <<"x down">>>>
    /\ hreq.w.code = StatusServiceUnavailable
    /\ \A c \in CheckerIds : services[c] = NoError

\* C14: the services report of an answered check maps the name of every
\* checker of the list to "healthy" if its Check returned no error in this
\* check and to "unhealthy: " followed by the error text if it returned one.
C14_ServicesReport ==
    HealthChecked =>
        \A i \in 1..Len(hreq.checkers) :
            LET name == hreq.checkers[i].ServiceName
                services_ == hreq.w.frames[1].services
            IN  /\ name \in DOMAIN services_
                /\ services_[name] =
                      IF hreq.errs[i] = NoError THEN <<"healthy">>
                      ELSE <<"unhealthy: ">> \o hreq.errs[i]

\* C15: in a service-health check no checker is called twice; when the
\* check is over, every checker of the list has been called once, each has
\* its outcome in the check and the report has reached the caller; and a
\* checker whose Check is still running when the connection's write
\* deadline has passed has not kept the others from reporting: each of
\* them has been called and has its outcome.
C15_ChecksIsolated ==
    (hreq.endpoint = "service-health" /\ hreq.method = "GET") =>
        /\ \A i \in 1..Len(hreq.checkers) : hreq.calls[i] <= 1
        /\ hreq.pc = "done" =>
              /\ \A i \in 1..Len(hreq.checkers) : hreq.calls[i] = 1
              /\ Len(hreq.errs) = Len(hreq.checkers)
              /\ ~hreq.lost
        /\ (hreq.pc = "checking" /\ hreq.elapsed > WriteTimeout) =>
              \A k \in 1..Len(hreq.checkers) :
                  k # hreq.i => (hreq.calls[k] = 1 /\ k <= Len(hreq.errs))

\* C16: a request to /health or /v1/service-health with a method other
\* than GET is answered 405 with an Error envelope (and so is a request to
\* /v1/run or /v1/tools with the wrong method, before anything else is
\* done for it).
C16_WrongMethod ==
    /\ (hreq.pc = "done" /\ hreq.method # "GET") =>
          /\ hreq.w.code = StatusMethodNotAllowed
          /\ hreq.w.frames = <<ErrorFrame(<<"Method not allowed">>)>>
    /\ \A r \in Reqs :
          (req[r].pc = "done" /\ req[r].w.code = StatusMethodNotAllowed) =>
              /\ req[r].w.frames = <<ErrorFrame(<<"Method not allowed">>)>>
              /\ req[r].calls = 0 /\ req[r].stage \in {"", "received"}

\* C17: GET /health is answered 200 with the document {"status": "ok"},
\* whatever checkers are registered and whatever their services answer.
C17_HealthUnconditional ==
    (hreq.pc = "done" /\ hreq.endpoint = "health" /\ hreq.method = "GET") =>
        hreq.w = [code |-> StatusOK, frames |-> <<[status |-> "ok"]>>]

\* answered while the service of a registered checker is down
C17_Witness ==
    /\ hreq.pc = "done" /\ hreq.endpoint = "health" /\ hreq.method = "GET"
    /\ hreq.w.code = StatusOK
    /\ Len(serviceCheckers) = MaxCheckers
    /\ \E i \in 1..Len(serviceCheckers) :
          services[serviceCheckers[i].id] # NoError

\* the configuration names no service completely
NoServices(c) ==
    /\ (c.SonarrURL = "" \/ c.SonarrAPIKey = "")
    /\ (c.RadarrURL = "" \/ c.RadarrAPIKey = "")
    /\ (c.ProwlarrURL = "" \/ c.ProwlarrAPIKey = "")

\* the host, the port and the log level are valid
ValidButForServices(c) ==
    /\ c.Host # ""
    /\ c.Port \in 1..65535
    /\ c.LogLevel \in validLevels

\* C20: with a configuration that is valid but for naming no service, main
\* does not exit: it goes on to set up and start the server, which then
\* serves an empty tool list and an empty list of checkers.
C20_ServesWithoutServices ==
    (main.pc # "off" /\ NoServices(config) /\ ValidButForServices(config)) =>
        /\ main.pc # "exited"
        /\ main.pc = "serving" =>
              /\ \A order \in RangeOrders(DOMAIN registry) :
                    ListTools(registry, order) = <<>>
              /\ serviceCheckers = <<>>

\* the positions of the visiting order whose parameter fails its own check
FailingAt(input, schema, order, arch) ==
    {i \in 1..Len(order) :
        CheckParam(input, order[i], schema[order[i]], arch) # NoError}

\* C22: a validation pass that fails returns the error of one parameter:
\* the first one, in the order the schema was visited, whose own check
\* (required-ness or type) fails; the message names that declared parameter
\* and no other, whatever the parameters after it are; a pass in which no
\* parameter fails returns no error.
C22_FailFast ==
    val.pc = "returned" =>
        LET failing == FailingAt(val.input, val.schema, val.order, goarch)
        IN  IF failing = {} THEN val.err = NoError
            ELSE \E i \in failing :
                    /\ \A j \in failing : i <= j
                    /\ val.err = CheckParam(val.input, val.order[i],
                                            val.schema[val.order[i]], goarch)
                    /\ {k \in 1..Len(val.err) : val.err[k] \in DOMAIN val.schema}
                          = {2}
                    /\ val.err[2] = val.order[i]
                    /\ Len(val.err) <= 3

\* both declared parameters fail their checks, "b" is visited first and is
\* the one reported
C22_Witness ==
    /\ val.pc = "returned"
    /\ val.order = <<"b", "a">>
    /\ FailingAt(val.input, val.schema, val.order, goarch) = {1, 2}
    /\ val.err = <<"required parameter missing: ", "b">>

\* C29: a validation that has returned gave the result every validation of
\* the same input against the same schema gives: the same verdict and, on
\* failure, the same message, in whatever order the schema is visited.
C29_Deterministic ==
    val.pc = "returned" =>
        \A order \in RangeOrders(DOMAIN val.schema) :
            validateParameters(val.input, val.schema, order, goarch) = val.err

\* C25: the streaming capability check is false for every handler that is
\* registered or being invoked, no run request is ever on the streaming
\* path or holds a Partial frame, and a run request has its one frame, a
\* Final or an Error, as soon as HandleRun has returned.
C25_NoStreaming ==
    /\ \A n \in DOMAIN handlers : ~supportStreamingResponse(handlers[n])
    /\ \A r \in RunReqs :
          /\ req[r].pc # "streaming"
          /\ ~supportStreamingResponse(req[r].handler)
          /\ \A i \in 1..Len(req[r].w.frames) :
                req[r].w.frames[i].type \in {"final", "error"}
          /\ Len(req[r].w.frames) = IF req[r].pc = "done" THEN 1 ELSE 0

\* both kinds of handler are registered and each has answered a request
C25_Witness ==
    /\ {handlers[n] : n \in DOMAIN handlers} = Handlers
    /\ \E r1, r2 \in RunReqs :
          /\ req[r1].pc = "done" /\ req[r1].handler = HandlerOK
          /\ req[r1].w.frames[1].type = "final"
          /\ req[r2].pc = "done" /\ req[r2].handler = HandlerErr
          /\ req[r2].w.frames[1].type = "error"

\* a step of a goroutine serving a request
RequestStep == req' # req \/ hreq' # hreq

\* C23: no step taken for a request (POST /v1/run on any path, GET
\* /v1/tools, /health, /v1/service-health) changes the registry, the handler
\* map or the checker list, and a request starts from nothing an earlier
\* request left: its response is empty, no handler or definition is held,
\* no call is counted, and a health check starts with an empty report, a
\* healthy verdict and the checker list as it is now.
C23_NoStateKept ==
    [][/\ RequestStep =>
             /\ registry' = registry
             /\ handlers' = handlers
             /\ serviceCheckers' = serviceCheckers
       /\ \A r \in Reqs :
             (Free(r) /\ req'[r] # req[r]) =>
                 /\ req'[r].handler = NoHandler /\ req'[r].toolDef = ZeroTool
                 /\ ~req'[r].exists /\ req'[r].ctxErr = ""
                 /\ req'[r].calls = 0 /\ req'[r].elapsed = 0
                 /\ IF req'[r].pc = "done"
                    THEN /\ Len(req'[r].w.frames) = 1
                         /\ req'[r].w.frames[1].type = "error"
                    ELSE req'[r].w = NewResponse
       /\ (hreq.pc \in {"idle", "done"} /\ hreq' # hreq) =>
             IF hreq'.pc = "done"
             THEN Len(hreq'.w.frames) = 1 /\ hreq'.results = EmptyMap
             ELSE /\ hreq'.w = NewResponse
                  /\ hreq'.results = EmptyMap /\ hreq'.allHealthy
                  /\ hreq'.errs = <<>>
                  /\ hreq'.checkers = serviceCheckers
                  /\ \A i \in 1..Len(hreq'.checkers) : hreq'.calls[i] = 0]_vars

\* a health check is starting after a degraded one was answered, and a run
\* request has been answered by its handler, with a tool and a checker
\* registered
C23_Witness ==
    /\ reg.pc = "idle" /\ DOMAIN registry = {"A"}
    /\ serviceCheckers = <<SonarrClient>>
    /\ services[SonarrClient.id] = NoError
    /\ hreq.pc = "range" /\ hreq.i = 1 /\ hreq.results = EmptyMap
    /\ req["r1"].pc = "done" /\ req["r1"].endpoint = "run"
    /\ req["r1"].calls = 1

\* C24: only a goroutine between RLock and RUnlock is among the readers of
\* the registry lock, so while a request is inside its handler (for however
\* long) the lock is as free as the registrations leave it: another
\* request's RLock goes through unless a registration holds or awaits the
\* lock, a request past its lookup goes on, a listing can be made, a registration can be called, and its Lock
\* goes through once no request is in its lookup.
C24_HandlersDoNotBlock ==
    /\ handlersLock.readers = {r \in Reqs : req[r].pc = "rlocked"}
    /\ ~fatal =>
          \A r1 \in Reqs :
              req[r1].pc \in {"executing", "streaming"} =>
                  /\ \A r2 \in Reqs \ {r1} :
                        /\ (req[r2].pc = "lookup" /\ reg.pc = "idle")
                              => ENABLED HandleRunRLock(r2)
                        /\ req[r2].pc = "unlocked" =>
                              ENABLED (\E order \in AllOrders({"q", "n"}) :
                                          HandleRunDispatch(r2, order))
                        /\ req[r2].pc = "listing" =>
                              ENABLED (\E order \in AllOrders(Names) :
                                          HandleListToolsList(r2, order))
                  /\ reg.pc = "idle" =>
                        ENABLED (\E c \in Registrations :
                                    RegisterToolCall(c.definition, c.handler))
                  /\ (reg.pc = "lock"
                        /\ \A r2 \in Reqs : req[r2].pc # "rlocked")
                        => ENABLED RegisterToolLock

\* a registration holds the write lock while both requests are inside
\* their handlers, one of them for as long as it is followed
C24_Witness ==
    /\ reg.pc = "locked" /\ handlersLock.writer
    /\ \A r \in Reqs : req[r].pc = "executing"
    /\ \E r \in Reqs : req[r].elapsed = MaxElapsed

\* a definition and a handler that were registered together
SameRegistration(definition, handler) ==
    [definition |-> definition, handler |-> handler] \in Registrations

\* C26: whenever no RegisterTool call holds the write lock (so whenever a
\* run request can look a name up), the keys of the handler map are the
\* names of the registry and each name's handler and definition come from
\* one registration; a request in its lookup finds the handler exactly when
\* it finds the definition, what it goes on with after RUnlock is the pair
\* of one registration or nothing, and the handler a request is executing and the
\* definition its input was validated against come from one registration.
C26_HandlerMatchesDefinition ==
    /\ ~handlersLock.writer =>
          /\ DOMAIN handlers = DOMAIN registry
          /\ \A n \in DOMAIN registry :
                SameRegistration(registry[n], handlers[n])
    /\ \A r \in RunReqs :
          /\ req[r].pc = "rlocked" =>
                (req[r].mcpRequest.tool_name \in DOMAIN handlers
                    <=> GetTool(registry, req[r].mcpRequest.tool_name).exists)
          /\ req[r].pc = "unlocked" =>
                IF req[r].exists
                THEN SameRegistration(req[r].toolDef, req[r].handler)
                ELSE req[r].toolDef = ZeroTool /\ req[r].handler = NoHandler
          /\ req[r].pc \in {"executing", "streaming"} =>
                /\ SameRegistration(req[r].toolDef, req[r].handler)
                /\ AllParamsPass(req[r].mcpRequest.input,
                                 req[r].toolDef.Parameters, goarch)

\* a request is executing the handler of the second registration of "A"
\* after another request was answered by the handler of the first, while
\* a further registration is writing
C26_Witness ==
    /\ reg.pc = "registered"
    /\ \E r1, r2 \in RunReqs :
          /\ req[r1].pc = "executing" /\ req[r1].handler = HandlerErr
          /\ req[r1].toolDef = ToolDefinition("A", "second A", SchemaQN)
          /\ req[r2].pc = "done" /\ req[r2].calls = 1
          /\ req[r2].mcpRequest.tool_name = "A"
          /\ req[r2].handler = HandlerOK

\* C28: in the document of an answered service-health check the status is
\* "ok" exactly when every entry of the services mapping is "healthy" and
\* "degraded" exactly when some entry starts with "unhealthy".
C28_StatusAgreesWithServices ==
    HealthChecked =>
        LET document == hreq.w.frames[1]
            unhealthy == {n \in DOMAIN document.services :
                             document.services[n][1] = "unhealthy: "}
        IN  /\ document.status = "ok" <=>
                  \A n \in DOMAIN document.services :
                      document.services[n] = <<"healthy">>
            /\ document.status = "degraded" <=> unhealthy # {}

\* the list a registration in progress is about to leave
ListAfterRegistration ==
    IF regc.pc = "append" THEN Append(serviceCheckers, regc.checker)
    ELSE serviceCheckers

\* C27: the list a service-health check iterates over is the checker list
\* as it was before or after a registration: a list of registered checkers
\* that the list, with the registration in progress applied, begins with.
C27_CheckerListAtomic ==
    (hreq.endpoint = "service-health" /\ hreq.method = "GET") =>
        /\ Len(hreq.checkers) <= Len(ListAfterRegistration)
        /\ \A i \in 1..Len(hreq.checkers) :
              hreq.checkers[i] = ListAfterRegistration[i]

\* the goroutine is at a read or a write of a field of the logger
AtFieldRead(c) == logger.g[c].pc \in {"level", "writing"}
AtFieldWrite(c) == logger.g[c].pc \in {"level=", "writer="}

\* C21: a goroutine that is at a read or a write of a field of the logger
\* (level, writer) while another goroutine is at a write of one holds the
\* logger's mutex, and at most one goroutine is writing an entry.
C21_LoggerThreadSafe ==
    /\ \A c1, c2 \in LogCallers :
          (c1 # c2 /\ AtFieldWrite(c2)
              /\ (AtFieldRead(c1) \/ AtFieldWrite(c1))) => logger.mu = c1
    /\ Cardinality({c \in LogCallers :
                       logger.g[c].pc \in {"write", "writing"}}) <= 1

\* C30: main calls Shutdown only when Start has set the server field, it is
\* never about to read the field while the Start goroutine is about to
\* write it, main does not panic, and a signal or a listen failure that is
\* in the stop channel is received by main, which then calls Shutdown and
\* returns from it, whatever the Start goroutine's send is doing.
C30_ShutdownAfterStart ==
    /\ main.pc \in {"received", "shutting"} =>
          (main.server = "set" /\ main.start # "spawned")
    /\ main.pc # "panicked"
    /\ (main.pc = "serving" /\ main.stop > 0) => ENABLED MainReceive
    /\ main.pc = "received" => ENABLED MainShutdownLog
    /\ main.pc = "shutting" => ENABLED MainShutdownCall
    /\ main.pc = "shutdown" => ENABLED MainShutdownReturn

====
